---- MODULE Spec2Model ----
(***************************************************************************)
(* State-machine models of the standalone example programs of the          *)
(* repository.  Every program is a leaf: the programs share no state, so   *)
(* each has its own variables, its own next-state relation and its own     *)
(* specification over the common initial state.                            *)
(*                                                                         *)
(*   SpecHandler   src/tterraform/lambda_function.py  (handler)            *)
(*   SpecLock      src/python/threads.py, section 4   (lock demo)          *)
(*   SpecThreads   src/python/threads.py, run as a script from line 1      *)
(*   SpecAsync     src/python/async.py and src/python/oop/threadsexample.py*)
(*   SpecMro       src/python/oop/class3.py          (ReportView.handle)   *)
(*   SpecGadget    src/python/oop.py                 (CachedGadget)        *)
(*   SpecCustomer  src/python/oop/class5.py         (CustomerRecord)       *)
(*   SpecAgent     src/python/langchain_langgraph_chatbot.py (agent graphs)*)
(*   SpecDaemon, SpecDaemonFair  src/python/threads.py, section 5 (daemon) *)
(*   SpecCopy      src/python/files.py               (copy_large_file)     *)
(*   SpecRich, SpecRichAttr  src/python/oop/class2.py  (RichExample)       *)
(*   SpecHist      src/python/langchain_langgraph_chatbot.py (store)       *)
(***************************************************************************)
EXTENDS Integers, Sequences, FiniteSets, TLC

VARIABLES
    \* ---- src/tterraform/lambda_function.py: one invocation of handler
    h_pc,        \* position of the invocation in handler
    event,       \* the event argument
    idx,         \* 1-based position of `record` in event['Records']
    body,        \* the local `body`: the decoded record body
    exc,         \* the exception in flight or caught (`e`)
    failedAt,    \* index of the record whose processing raised, 0 if none
    taken,       \* indices of the records the for loop has taken
    calls,       \* indices of the records process_message was called with
    response,    \* the value returned by handler
    sqs_calls,   \* the requests made through the module-level client `sqs`
    \* ---- src/python/threads.py, section 4: threading.Lock
    counter,     \* the global counter
    lock,        \* the thread holding `lock`, 0 when it is free
    m_pc,        \* position of the main thread in lines 62-67
    m_i,         \* position of `t` in `threads` for the loops of lines 63-66
    t_pc,        \* per increment thread: its position in increment()
    t_n,         \* per increment thread: iterations of line 58 completed
    t_tmp,       \* per increment thread: the value loaded by counter += 1
    printed,     \* the value print("Counter:", counter) wrote
    \* ---- src/python/threads.py run top to bottom
    s_pc,        \* position of the main thread in the script
    globals,     \* the module-level names bound so far
    s_i,         \* the `i` of line 9
    queue,       \* the executor's work queue: futures not yet taken
    idle,        \* the executor's idle-worker semaphore
    w_pc,        \* per pool worker: its position
    w_item,      \* per pool worker: the future it is running, 0 if none
    futures,     \* per future: state, result and exception
    yielded,     \* futures as_completed has handed to the loop of line 10
    future,      \* the `future` of lines 10-11
    pending,     \* the exception propagating in the main thread
    out,         \* the lines printed
    results,     \* the `results` of line 15: whether it is bound, and its value
    \* ---- src/python/async.py and src/python/oop/threadsexample.py, per script
    a_stmt,      \* the top-level statement being executed
    a_loop,      \* whether an asyncio.run of the script has its loop running
    co,          \* per task of the loop: its position and its state
    a_ready,     \* the loop's ready callbacks, oldest first
    a_timers,    \* the loop's timers, in the order they were set
    a_clock,     \* the time, in half seconds since the script started
    a_out,       \* the lines printed
    a_queue,     \* the items of the asyncio.Queue of main3
    a_i,         \* the `i` of producer
    a_t0,        \* the time at which the current asyncio.run was called
    \* ---- src/python/oop/class3.py
    v_pc,        \* position in the evaluation of ReportView().handle()
    v_bases,     \* the bases of the class statement of ReportView
    v_stack,     \* classes whose handle is active, innermost first
    v_ret,       \* the list being returned
    \* ---- src/python/oop.py: CachedGadget
    g_pc,        \* position inside the call CachedGadget(name, feature)
    g_cache,     \* CachedGadget._cache: per name the cached object, 0 if none
    g_heap,      \* the CachedGadget objects allocated, by identity
    g_call,      \* the call in progress: its arguments and its object
    g_log,       \* the calls completed: arguments and returned object
    \* ---- src/python/oop/class5.py: CustomerRecord
    c_pc,        \* "none" before line 50, "live" once customer is bound,
    c_name,      \* customer.name
    c_created,   \* customer.created_at
    c_updated,   \* customer.updated_at
    c_deleted,   \* customer.deleted
    c_clock,     \* the reading datetime.utcnow() would return now,
    c_saves,     \* the readings the save() calls took, oldest first
    \* ---- src/python/langchain_langgraph_chatbot.py: examples 3 and 4
    ag_ex,       \* the example function being run, "none" outside both
    ag_pc,       \* "idle" between two app.invoke calls, else the node up next
    ag_turn,     \* how many of the example's inputs were passed to app.invoke
    ag_local,    \* the local `messages` of langgraph_agent_with_memory
    ag_state,    \* the value of the state key "messages" inside the graph
    ag_llm,      \* how the model behind llm_with_tools behaves in this run
    ag_steps,    \* supersteps the current run has taken
    ag_rounds,   \* responses with tool calls the model gave in this run
    ag_input,    \* the messages the current app.invoke was given
    ag_produced, \* model responses and tool results of the current run
    ag_said,     \* every user and assistant message of the conversation
    ag_trace,    \* the nodes the current run has executed, in order
    \* ---- src/python/threads.py, section 5: daemon thread
    d_main,      \* position of the main thread in lines 75-78
    d_daemon,    \* position of daemon_thread in background_task
    d_proc,      \* "running" until the interpreter has shut down
    d_clock,     \* seconds since line 75
    d_wake,      \* per thread the time before which its time.sleep does not return
    d_out,       \* the lines printed
    d_final,     \* the output as it stood when the process exited
    \* ---- src/python/files.py: copy_large_file
    f_pc,        \* position of the call of copy_large_file
    f_fs,        \* the files: per path whether it exists, and its bytes
    f_src,       \* the argument src
    f_dst,       \* the argument dst
    f_size,      \* the argument buffer_size
    f_rpos,      \* the position of fsrc
    f_wpos,      \* the position of fdst
    f_buf,       \* the local buf
    f_reads,     \* calls of fsrc.read so far
    f_before,    \* the files as they were when the function was called
    \* ---- src/python/oop/class2.py: RichExample
    r_objs,      \* the RichExample objects, by identity: name, _values, _extras, _active
    r_lists,     \* the list objects that _values attributes refer to, by identity
    r_with,      \* the with statement in progress: its object and how far it is
    r_n,         \* operations on the objects so far, with statements apart
    r_last,      \* the last operation: what it was given, what it gave, the heap before
    \* ---- src/python/langchain_langgraph_chatbot.py: the session store of example 1
    m_store,     \* the dict `store`: per session id its history object, NoHistory if none
    m_hist,      \* the InMemoryChatMessageHistory objects, by identity: their messages
    m_requested, \* the session ids get_session_history has been called with
    m_last       \* the last call: its session id, what it returned, store and histories before

handlerVars == <<h_pc, event, idx, body, exc, failedAt, taken, calls, response,
                 sqs_calls>>

lockVars == <<counter, lock, m_pc, m_i, t_pc, t_n, t_tmp, printed>>

poolVars == <<s_pc, globals, s_i, queue, idle, w_pc, w_item, futures, yielded,
              future, pending, out, results>>

asyncVars == <<a_stmt, a_loop, co, a_ready, a_timers, a_clock, a_out, a_queue,
               a_i, a_t0>>

mroVars == <<v_pc, v_bases, v_stack, v_ret>>

gadgetVars == <<g_pc, g_cache, g_heap, g_call, g_log>>

customerVars == <<c_pc, c_name, c_created, c_updated, c_deleted, c_clock,
                  c_saves>>

agentVars == <<ag_ex, ag_pc, ag_turn, ag_local, ag_state, ag_llm, ag_steps,
               ag_rounds, ag_input, ag_produced, ag_said, ag_trace>>

daemonVars == <<d_main, d_daemon, d_proc, d_clock, d_wake, d_out, d_final>>

copyVars == <<f_pc, f_fs, f_src, f_dst, f_size, f_rpos, f_wpos, f_buf, f_reads,
              f_before>>

richVars == <<r_objs, r_lists, r_with, r_n, r_last>>

histVars == <<m_store, m_hist, m_requested, m_last>>

vars == <<handlerVars, lockVars, poolVars, asyncVars, mroVars, gadgetVars,
        customerVars, agentVars, daemonVars, copyVars, richVars, histVars>>

\* The programs share no state: a step of one leaves the others' alone.
HandlerFrame == UNCHANGED <<lockVars, poolVars, asyncVars, mroVars,
        gadgetVars, customerVars, agentVars, daemonVars, copyVars, richVars,
        histVars>>
LockFrame == UNCHANGED <<handlerVars, poolVars, asyncVars, mroVars,
        gadgetVars, customerVars, agentVars, daemonVars, copyVars, richVars,
        histVars>>
ThreadsFrame == UNCHANGED <<handlerVars, lockVars, asyncVars, mroVars,
        gadgetVars, customerVars, agentVars, daemonVars, copyVars, richVars,
        histVars>>
AsyncFrame == UNCHANGED <<handlerVars, lockVars, poolVars, mroVars,
        gadgetVars, customerVars, agentVars, daemonVars, copyVars, richVars,
        histVars>>
MroFrame == UNCHANGED <<handlerVars, lockVars, poolVars, asyncVars,
        gadgetVars, customerVars, agentVars, daemonVars, copyVars, richVars,
        histVars>>
GadgetFrame == UNCHANGED <<handlerVars, lockVars, poolVars, asyncVars,
        mroVars, customerVars, agentVars, daemonVars, copyVars, richVars,
        histVars>>
CustomerFrame == UNCHANGED <<handlerVars, lockVars, poolVars, asyncVars,
        mroVars, gadgetVars, agentVars, daemonVars, copyVars, richVars,
        histVars>>
AgentFrame == UNCHANGED <<handlerVars, lockVars, poolVars, asyncVars,
        mroVars, gadgetVars, customerVars, daemonVars, copyVars, richVars,
        histVars>>
DaemonFrame == UNCHANGED <<handlerVars, lockVars, poolVars, asyncVars,
        mroVars, gadgetVars, customerVars, agentVars, copyVars, richVars,
        histVars>>
CopyFrame == UNCHANGED <<handlerVars, lockVars, poolVars, asyncVars, mroVars,
        gadgetVars, customerVars, agentVars, daemonVars, richVars, histVars>>
RichFrame == UNCHANGED <<handlerVars, lockVars, poolVars, asyncVars, mroVars,
        gadgetVars, customerVars, agentVars, daemonVars, copyVars, histVars>>
HistFrame == UNCHANGED <<handlerVars, lockVars, poolVars, asyncVars, mroVars,
        gadgetVars, customerVars, agentVars, daemonVars, copyVars, richVars>>

(***************************************************************************)
(* Bounds                                                                  *)
(***************************************************************************)
\* longest batch (event['Records']) an invocation is given
MaxRecords == 2
\* threads of the lock demo (10 in the script, line 62)
NumThreads == 3
\* increments each of them performs (1000 in the script, line 58)
NumIncrements == 2
\* calls CachedGadget(name, feature) a run makes
MaxConstructions == 4
\* calls of save() on one CustomerRecord
MaxSaves == 3
\* last reading of the clock of class5.py
MaxClock == 4
\* responses with tool calls a model that answers gives in one run
MaxRounds == 2
\* seconds the daemon demo is followed for
MaxSeconds == 5
\* bytes in a file of the copy example
MaxLen == 3
\* largest buffer_size passed to copy_large_file
MaxBuf == 3
\* RichExample objects a run allocates
MaxObjects == 3
\* longest _values list of a RichExample
MaxValues == 4
\* operations a run performs on the RichExample objects it constructed
MaxOps == 2
\* invocations of the chatbot under one session id
MaxInvokes == 2

(***************************************************************************)
(*                 src/tterraform/lambda_function.py                       *)
(***************************************************************************)

None == [type |-> "None"]
NoExc == [type |-> "none", msg |-> ""]

\* The texts a record carries under 'body'; NoBody stands for a record
\* without the key.
NoBody == "<no body key>"
BodyTexts == { NoBody, "not json", "{}", "{\"task\": 1}", "5", "[\"task\"]" }

\* A record of the batch: whether it has 'messageId', and its 'body' text.
Records == [hasId : BOOLEAN, body : BodyTexts]

RECURSIVE SeqsUpTo(_, _)
SeqsUpTo(S, n) ==
    IF n = 0 THEN { <<>> }
    ELSE LET shorter == SeqsUpTo(S, n - 1)
         IN  shorter \cup { Append(s, x) : s \in { t \in shorter : Len(t) = n - 1 }, x \in S }

\* Events: JSON-serialisable or not (json.dumps rejects e.g. a set or bytes
\* value anywhere in the event), with or without the 'Records' key.
Events ==
    { ev \in [serialisable : BOOLEAN, hasRecords : BOOLEAN,
              Records : SeqsUpTo(Records, MaxRecords)] :
        ~ev.hasRecords => ev.Records = <<>> }

\* json.loads on a body text: the decoded value, or the JSONDecodeError.
\* A decoded value is its Python type and, for containers, its members.
JsonLoads(s) ==
    CASE s = "{}"            -> [err |-> NoExc, val |-> [type |-> "dict", members |-> {}]]
      [] s = "{\"task\": 1}" -> [err |-> NoExc, val |-> [type |-> "dict", members |-> {"task"}]]
      [] s = "5"             -> [err |-> NoExc, val |-> [type |-> "int", members |-> {}]]
      [] s = "[\"task\"]"    -> [err |-> NoExc, val |-> [type |-> "list", members |-> {"task"}]]
      [] OTHER               -> [err |-> [type |-> "JSONDecodeError",
                                          msg  |-> "Expecting value: line 1 column 1 (char 0)"],
                                 val |-> None]

\* `key in message` followed by message[key] (lines 46-47 and 49-50).
LookUp(message, key) ==
    CASE message.type = "dict" -> NoExc
      [] message.type = "list" ->
            IF key \in message.members
            THEN [type |-> "TypeError", msg |-> "list indices must be integers or slices, not str"]
            ELSE NoExc
      [] OTHER -> [type |-> "TypeError", msg |-> "argument of type 'int' is not iterable"]

\* process_message(message): the exception it raises, NoExc if it returns.
ProcessMessage(message) ==
    LET task == LookUp(message, "task")
    IN  IF task # NoExc THEN task ELSE LookUp(message, "data")

\* Lines 18-19: record['messageId'], then json.loads(record['body']).
DecodeRecord(record) ==
    IF ~record.hasId
    THEN [err |-> [type |-> "KeyError", msg |-> "'messageId'"], val |-> None]
    ELSE IF record.body = NoBody
    THEN [err |-> [type |-> "KeyError", msg |-> "'body'"], val |-> None]
    ELSE JsonLoads(record.body)

\* Line 17: the for loop moves on to the record after record i.
NextIndex_Skip(i) == i + 2
NextIndex(i) == i + 1

\* Line 17: the for loop is exhausted after the last record.
LoopDone_SkipsLast(i, records) == i >= Len(records)
LoopDone(i, records) == i > Len(records)

\* Lines 26-29.
SuccessResponse ==
    [statusCode |-> 200, body |-> <<"Messages processed successfully">>]

\* Lines 33-36: json.dumps(f'Error: {str(e)}').
ErrorResponse(e) ==
    [statusCode |-> 500, body |-> <<"Error: ", e.msg>>]

\* An exception raised inside the try block (lines 15-29) while record i is
\* being processed (i = 0: before the loop) transfers control to the except
\* clause of line 31.
Raise_Continue(e, i) ==
    /\ exc' = e
    /\ failedAt' = i
    /\ idx' = i + 1
    /\ h_pc' = "for"
Raise(e, i) ==
    /\ exc' = e
    /\ failedAt' = i
    /\ idx' = idx
    /\ h_pc' = "except"

\* The runtime calls handler(event, context).
Invoke(ev) ==
    /\ HandlerFrame
    /\ UNCHANGED sqs_calls
    /\ h_pc = "idle"
    /\ h_pc' = "line13"
    /\ event' = ev
    /\ UNCHANGED <<idx, body, exc, failedAt, taken, calls, response>>

\* Line 13: print(json.dumps(event)), outside the try statement.
LogEvent ==
    /\ HandlerFrame
    /\ UNCHANGED sqs_calls
    /\ h_pc = "line13"
    /\ IF event.serialisable
       THEN /\ h_pc' = "try"
            /\ exc' = exc
       ELSE /\ h_pc' = "raised"
            /\ exc' = [type |-> "TypeError",
                       msg  |-> "Object of type set is not JSON serializable"]
    /\ UNCHANGED <<event, idx, body, failedAt, taken, calls, response>>

\* Line 17: event['Records'] is evaluated once, on entry to the loop.
EnterLoop ==
    /\ HandlerFrame
    /\ UNCHANGED sqs_calls
    /\ h_pc = "try"
    /\ IF ~event.hasRecords
       THEN Raise([type |-> "KeyError", msg |-> "'Records'"], 0)
       ELSE /\ idx' = 1
            /\ h_pc' = "for"
            /\ UNCHANGED <<exc, failedAt>>
    /\ UNCHANGED <<event, body, taken, calls, response>>

\* Lines 17-21: the next record is taken and decoded.
NextRecord ==
    /\ HandlerFrame
    /\ UNCHANGED sqs_calls
    /\ h_pc = "for"
    /\ ~LoopDone(idx, event.Records)
    /\ taken' = Append(taken, idx)
    /\ LET d == DecodeRecord(event.Records[idx])
       IN  IF d.err # NoExc
           THEN /\ Raise(d.err, idx)
                /\ body' = body
           ELSE /\ body' = d.val
                /\ h_pc' = "line24"
                /\ UNCHANGED <<idx, exc, failedAt>>
    /\ UNCHANGED <<event, calls, response>>

\* Line 24: process_message(body).
CallProcessMessage ==
    /\ HandlerFrame
    /\ UNCHANGED sqs_calls
    /\ h_pc = "line24"
    /\ calls' = Append(calls, idx)
    /\ LET e == ProcessMessage(body)
       IN  IF e # NoExc
           THEN Raise(e, idx)
           ELSE /\ idx' = NextIndex(idx)
                /\ h_pc' = "for"
                /\ UNCHANGED <<exc, failedAt>>
    /\ UNCHANGED <<event, body, taken, response>>

\* Lines 26-29: the loop is exhausted.
ReturnSuccess ==
    /\ HandlerFrame
    /\ UNCHANGED sqs_calls
    /\ h_pc = "for"
    /\ LoopDone(idx, event.Records)
    /\ response' = SuccessResponse
    /\ h_pc' = "returned"
    /\ UNCHANGED <<event, idx, body, exc, failedAt, taken, calls>>

\* Lines 31-36: except Exception as e.
ReturnError ==
    /\ HandlerFrame
    /\ UNCHANGED sqs_calls
    /\ h_pc = "except"
    /\ response' = ErrorResponse(exc)
    /\ h_pc' = "returned"
    /\ UNCHANGED <<event, idx, body, exc, failedAt, taken, calls>>

\* The invocation is over: the runtime has the response, or the error that
\* handler let through, and the next invocation starts afresh.
Complete ==
    /\ HandlerFrame
    /\ UNCHANGED sqs_calls
    /\ h_pc \in {"returned", "raised"}
    /\ h_pc' = "idle"
    /\ event' = None
    /\ idx' = 0
    /\ body' = None
    /\ exc' = NoExc
    /\ failedAt' = 0
    /\ taken' = <<>>
    /\ calls' = <<>>
    /\ response' = None

HandlerNext ==
    \/ \E ev \in Events : Invoke(ev)
    \/ LogEvent
    \/ EnterLoop
    \/ NextRecord
    \/ CallProcessMessage
    \/ ReturnSuccess
    \/ ReturnError
    \/ Complete

HandlerInit ==
    /\ h_pc = "idle"
    /\ event = None
    /\ idx = 0
    /\ body = None
    /\ exc = NoExc
    /\ failedAt = 0
    /\ taken = <<>>
    /\ calls = <<>>
    /\ response = None
    /\ sqs_calls = <<>>    \* line 5: the client is created, nothing is sent

(***************************************************************************)
(*                 src/python/threads.py, section 4 (lines 52-67)          *)
(***************************************************************************)

Threads == 1..NumThreads

\* Line 59: `with lock:` enters only while no thread holds the lock.
LockFree_Always(l) == TRUE
LockFree(l) == l = 0

\* Lines 63-64: t.start() for each thread in list order.
StartThread ==
    /\ LockFrame
    /\ m_pc = "start"
    /\ t_pc' = [t_pc EXCEPT ![m_i] = "for"]
    /\ IF m_i = NumThreads
       THEN m_pc' = "join" /\ m_i' = 1
       ELSE m_pc' = "start" /\ m_i' = m_i + 1
    /\ UNCHANGED <<counter, lock, t_n, t_tmp, printed>>

\* Line 58: for _ in range(1000).
ForIteration(t) ==
    /\ LockFrame
    /\ t_pc[t] = "for"
    /\ t_pc' = [t_pc EXCEPT ![t] = IF t_n[t] < NumIncrements THEN "with" ELSE "finished"]
    /\ UNCHANGED <<counter, lock, m_pc, m_i, t_n, t_tmp, printed>>

\* Line 59: lock.__enter__ acquires the lock, blocking while it is held.
Acquire(t) ==
    /\ LockFrame
    /\ t_pc[t] = "with"
    /\ LockFree(lock)
    /\ lock' = t
    /\ t_pc' = [t_pc EXCEPT ![t] = "load"]
    /\ UNCHANGED <<counter, m_pc, m_i, t_n, t_tmp, printed>>

\* Line 60, counter += 1: the global is loaded ...
Load(t) ==
    /\ LockFrame
    /\ t_pc[t] = "load"
    /\ t_tmp' = [t_tmp EXCEPT ![t] = counter]
    /\ t_pc' = [t_pc EXCEPT ![t] = "store"]
    /\ UNCHANGED <<counter, lock, m_pc, m_i, t_n, printed>>

\* ... and the sum is stored back.
Store(t) ==
    /\ LockFrame
    /\ t_pc[t] = "store"
    /\ counter' = t_tmp[t] + 1
    /\ t_pc' = [t_pc EXCEPT ![t] = "exit"]
    /\ UNCHANGED <<lock, m_pc, m_i, t_n, t_tmp, printed>>

\* lock.__exit__ is lock.release(): the lock afterwards.
Released_Kept(l) == l
Released(l) == 0

\* End of the with block: lock.__exit__ releases the lock.
Release(t) ==
    /\ LockFrame
    /\ t_pc[t] = "exit"
    /\ lock' = Released(lock)
    /\ t_n' = [t_n EXCEPT ![t] = @ + 1]
    /\ t_pc' = [t_pc EXCEPT ![t] = "for"]
    /\ UNCHANGED <<counter, m_pc, m_i, t_tmp, printed>>

\* Lines 65-66: t.join() returns once thread t has finished, by returning
\* from increment or by an exception that left it.
JoinThread ==
    /\ LockFrame
    /\ m_pc = "join"
    /\ t_pc[m_i] \in {"finished", "raised"}
    /\ IF m_i = NumThreads
       THEN m_pc' = "print" /\ m_i' = m_i
       ELSE m_pc' = "join" /\ m_i' = m_i + 1
    /\ UNCHANGED <<counter, lock, t_pc, t_n, t_tmp, printed>>

\* Line 67.
PrintCounter ==
    /\ LockFrame
    /\ m_pc = "print"
    /\ printed' = counter
    /\ m_pc' = "done"
    /\ UNCHANGED <<counter, lock, m_i, t_pc, t_n, t_tmp>>

LockNext ==
    \/ StartThread
    \/ \E t \in Threads : ForIteration(t)
    \/ \E t \in Threads : Acquire(t)
    \/ \E t \in Threads : Load(t)
    \/ \E t \in Threads : Store(t)
    \/ \E t \in Threads : Release(t)
    \/ JoinThread
    \/ PrintCounter

\* Lines 59-60, were `counter += 1` to raise: the exception leaves the with
\* block, whose lock.__exit__ releases the lock, then the for loop and
\* increment, and the thread ends.
IncrementRaises(t) ==
    /\ LockFrame
    /\ t_pc[t] \in {"load", "store"}
    /\ lock' = Released(lock)
    /\ t_pc' = [t_pc EXCEPT ![t] = "raised"]
    /\ UNCHANGED <<counter, m_pc, m_i, t_n, t_tmp, printed>>

\* The lock demo with increments that may raise.
LockRaisingNext ==
    \/ LockNext
    \/ \E t \in Threads : IncrementRaises(t)

\* The steps of the main thread and of thread t that the scheduler runs.
LockMainStep == StartThread \/ JoinThread \/ PrintCounter
LockThreadStep(t) ==
    ForIteration(t) \/ Acquire(t) \/ Load(t) \/ Store(t) \/ Release(t)

\* Lines 53-54 and 62: counter = 0, a fresh lock, the threads created.
LockInit ==
    /\ counter = 0
    /\ lock = 0
    /\ m_pc = "start"
    /\ m_i = 1
    /\ t_pc = [t \in Threads |-> "created"]
    /\ t_n = [t \in Threads |-> 0]
    /\ t_tmp = [t \in Threads |-> 0]
    /\ printed = -1


(***************************************************************************)
(*                 src/python/threads.py, run as a script                  *)
(***************************************************************************)

\* Line 8: ThreadPoolExecutor(max_workers=4).
MaxWorkers == 4
\* Line 9: range(5).
NumTasks == 5

Workers == 1..MaxWorkers
Futures == 1..NumTasks

\* Line 9: future f is submit(square, i) with i = f - 1.
ArgOf(f) == f - 1

\* square(n), lines 4-6, run with the module's names `names`: line 5 looks
\* the global `time` up when it is executed.
Square(n, names) ==
    IF "time" \in names
    THEN [exc |-> NoExc, val |-> n * n]
    ELSE [exc |-> [type |-> "NameError", msg |-> "name 'time' is not defined"],
          val |-> None]

NewFuture == [state |-> "new", exc |-> NoExc, val |-> None]

Spawned == { w \in Workers : w_pc[w] # "unspawned" }

\* Line 2: from concurrent.futures import ThreadPoolExecutor, as_completed.
ImportFutures ==
    /\ ThreadsFrame
    /\ s_pc = "line2"
    /\ globals' = globals \cup {"ThreadPoolExecutor", "as_completed"}
    /\ s_pc' = "line4"
    /\ UNCHANGED <<s_i, queue, idle, w_pc, w_item, futures, yielded, future,
                   pending, out, results>>

\* Lines 4-6: def square binds the name; the body is not run.
DefSquare ==
    /\ ThreadsFrame
    /\ s_pc = "line4"
    /\ globals' = globals \cup {"square"}
    /\ s_pc' = "line8"
    /\ UNCHANGED <<s_i, queue, idle, w_pc, w_item, futures, yielded, future,
                   pending, out, results>>

\* Line 8: with ThreadPoolExecutor(max_workers=4) as executor.
EnterExecutor ==
    /\ ThreadsFrame
    /\ s_pc = "line8"
    /\ globals' = globals \cup {"executor"}
    /\ s_i' = 0
    /\ s_pc' = "line9"
    /\ UNCHANGED <<queue, idle, w_pc, w_item, futures, yielded, future,
                   pending, out, results>>

\* Line 9: executor.submit(square, i) queues the call, and starts a worker
\* thread unless a worker is idle or max_workers threads exist; after the
\* last one the list is bound to `futures`.
Submit ==
    /\ ThreadsFrame
    /\ s_pc = "line9"
    /\ s_i < NumTasks
    /\ LET f == s_i + 1
       IN  /\ futures' = [futures EXCEPT ![f].state = "pending"]
           /\ queue' = Append(queue, f)
           /\ IF idle > 0
              THEN idle' = idle - 1 /\ w_pc' = w_pc
              ELSE /\ idle' = idle
                   /\ IF Spawned # Workers
                      THEN LET w == CHOOSE v \in Workers \ Spawned :
                                        \A u \in Workers \ Spawned : v <= u
                           IN  w_pc' = [w_pc EXCEPT ![w] = "get"]
                      ELSE w_pc' = w_pc
    /\ s_i' = s_i + 1
    /\ IF s_i + 1 = NumTasks
       THEN s_pc' = "line10" /\ globals' = globals \cup {"i", "futures"}
       ELSE s_pc' = "line9" /\ globals' = globals
    /\ UNCHANGED <<w_item, yielded, future, pending, out, results>>

\* A worker thread takes the oldest queued call.
WorkerGet(w) ==
    /\ ThreadsFrame
    /\ w_pc[w] = "get"
    /\ queue # <<>>
    /\ w_item' = [w_item EXCEPT ![w] = Head(queue)]
    /\ queue' = Tail(queue)
    /\ futures' = [futures EXCEPT ![Head(queue)].state = "running"]
    /\ w_pc' = [w_pc EXCEPT ![w] = "run"]
    /\ UNCHANGED <<s_pc, globals, s_i, idle, yielded, future, pending, out, results>>

\* The worker calls square(i) and stores what it returned or raised in the
\* future; the worker is idle again.
WorkerRun(w) ==
    /\ ThreadsFrame
    /\ w_pc[w] = "run"
    /\ LET r == Square(ArgOf(w_item[w]), globals)
       IN  futures' = [futures EXCEPT ![w_item[w]] =
                          [state |-> "finished", exc |-> r.exc, val |-> r.val]]
    /\ w_item' = [w_item EXCEPT ![w] = 0]
    /\ idle' = idle + 1
    /\ w_pc' = [w_pc EXCEPT ![w] = "get"]
    /\ UNCHANGED <<s_pc, globals, s_i, queue, yielded, future, pending, out, results>>

\* Line 10: as_completed hands over a finished future not handed over yet,
\* in whatever order the futures finish; the loop ends after the last one.
AsCompleted ==
    /\ ThreadsFrame
    /\ s_pc = "line10"
    /\ IF yielded = Futures
       THEN /\ s_pc' = "exit8"
            /\ UNCHANGED <<yielded, future, globals>>
       ELSE \E f \in Futures \ yielded :
                /\ futures[f].state = "finished"
                /\ yielded' = yielded \cup {f}
                /\ future' = f
                /\ globals' = globals \cup {"future"}
                /\ s_pc' = "line11"
    /\ UNCHANGED <<s_i, queue, idle, w_pc, w_item, futures, pending, out, results>>

\* Line 11: future.result() returns the call's value or raises the call's
\* exception in the main thread.
PrintResult ==
    /\ ThreadsFrame
    /\ s_pc = "line11"
    /\ IF futures[future].exc = NoExc
       THEN /\ out' = Append(out, <<"Result:", futures[future].val>>)
            /\ s_pc' = "line10"
            /\ pending' = pending
       ELSE /\ pending' = futures[future].exc
            /\ s_pc' = "exit8"
            /\ out' = out
    /\ UNCHANGED <<globals, s_i, queue, idle, w_pc, w_item, futures, yielded,
                   future, results>>

\* Leaving the with block of line 8: executor.__exit__ is shutdown(wait=True),
\* which returns once the queued calls have been run and the workers have
\* ended; a propagating exception then leaves the script uncaught, otherwise
\* the script goes on with line 14.
ExitExecutor ==
    /\ ThreadsFrame
    /\ s_pc = "exit8"
    /\ queue = <<>>
    /\ \A w \in Workers : w_pc[w] \in {"unspawned", "get"}
    /\ w_pc' = [w \in Workers |-> IF w_pc[w] = "get" THEN "ended" ELSE w_pc[w]]
    /\ IF pending # NoExc
       THEN /\ out' = Append(out, <<"Traceback", pending.type>>)
            /\ s_pc' = "exited"
       ELSE /\ out' = out
            /\ s_pc' = "line14"
    /\ UNCHANGED <<globals, s_i, queue, idle, w_item, futures, yielded, future,
                   pending, results>>

ThreadsNext ==
    \/ ImportFutures
    \/ DefSquare
    \/ EnterExecutor
    \/ Submit
    \/ \E w \in Workers : WorkerGet(w)
    \/ \E w \in Workers : WorkerRun(w)
    \/ AsCompleted
    \/ PrintResult
    \/ ExitExecutor

\* The interpreter is about to execute line 1 of the script.
ThreadsInit ==
    /\ s_pc = "line2"
    /\ globals = {}
    /\ s_i = 0
    /\ queue = <<>>
    /\ idle = 0
    /\ w_pc = [w \in Workers |-> "unspawned"]
    /\ w_item = [w \in Workers |-> 0]
    /\ futures = [f \in Futures |-> NewFuture]
    /\ yielded = {}
    /\ future = 0
    /\ pending = NoExc
    /\ out = <<>>
    /\ results = [bound |-> FALSE, value |-> <<>>]

(***************************************************************************)
(*       src/python/async.py and src/python/oop/threadsexample.py          *)
(*                                                                         *)
(* Two scripts, each one process with its own asyncio event loop.  A loop  *)
(* runs one ready callback at a time, in FIFO order; a task runs from one  *)
(* await that suspends it to the next.  Time is counted in half seconds,   *)
(* the unit all the delays of the two scripts are multiples of.            *)
(***************************************************************************)

Scripts == {"async.py", "threadsexample.py"}
TaskNames == {"main", "A", "B", "C", "quick", "long"}
Children == <<"A", "B", "C">>

RunStmt(coro) == [op |-> "run", arg |-> coro]
PrintStmt(text) == [op |-> "print", arg |-> text]

\* The top-level statements of each script, in order.
Program(p) ==
    IF p = "async.py"
    THEN << RunStmt("say_hello"), RunStmt("main"), RunStmt("main2"), RunStmt("main3"), RunStmt("main4") >>
    ELSE << PrintStmt("Running tasks..."), RunStmt("main"), PrintStmt("All tasks completed.") >>

\* The delay main() passes to task(name, delay), in half seconds.
Delay_Swapped(p, name) == CASE name = "A" -> 4 [] name = "B" -> 2 [] OTHER -> 3
Delay(p, name) ==
    IF p = "async.py"
    THEN CASE name = "A" -> 2 [] name = "B" -> 4 [] name = "C" -> 3
    ELSE CASE name = "A" -> 4 [] name = "B" -> 2 [] name = "C" -> 6

\* The first and the last line task(name, delay) prints.
StartLine(p, name) ==
    IF p = "async.py" THEN <<"Task", name, "started">> ELSE <<"Start", name>>
EndLine(p, name) ==
    IF p = "async.py" THEN <<"Task", name, "finished">> ELSE <<"End", name>>

\* async.py line 6, asyncio.sleep(1).
HelloSleep == 2
\* async.py line 29, asyncio.sleep(0.5).
QuickSleep == 1
\* async.py line 59, asyncio.sleep(2).
LongTaskSleep == 4
\* async.py line 64, wait_for(..., timeout=1).
WaitForTimeout_AfterTask == LongTaskSleep + 2
WaitForTimeout == 2
\* async.py line 41, range(3).
NumItems == 3

\* str(i) for the items of the queue demo.
Str(i) == CASE i = 0 -> "0" [] i = 1 -> "1" [] i = 2 -> "2" [] OTHER -> "?"

NoTask == [pc |-> "none", state |-> "none"]
Started == [pc |-> "start", state |-> "pending"]

\* The coroutine the current asyncio.run statement runs as its main task.
MainCoro(p) ==
    IF a_stmt[p] \in 1..Len(Program(p)) /\ Program(p)[a_stmt[p]].op = "run"
    THEN Program(p)[a_stmt[p]].arg
    ELSE "none"

\* Task t is the callback the loop of p runs next, and t stands at pc.
Runs(p, t, pc) ==
    /\ a_loop[p]
    /\ a_ready[p] # <<>>
    /\ Head(a_ready[p]).task = t
    /\ Head(a_ready[p]).kind # "timeout"
    /\ co[p][t].pc = pc

Step(t) == [task |-> t, kind |-> "step"]

\* asyncio.gather: the awaiting task is resumed when the gathered tasks are
\* finished, all of them.
GatherDone_First(tasks) == \E k \in 1..Len(Children) : tasks[Children[k]].state = "done"
GatherDone(tasks) == \A k \in 1..Len(Children) : tasks[Children[k]].state = "done"

RECURSIVE SelectSeq2(_, _, _)
\* The timers of sequence s due at time w (keep = TRUE) or later (FALSE).
SelectSeq2(s, w, keep) ==
    IF s = <<>> THEN <<>>
    ELSE LET rest == SelectSeq2(Tail(s), w, keep)
         IN  IF (Head(s).when <= w) = keep THEN <<Head(s)>> \o rest ELSE rest

RECURSIVE MinWhen(_)
MinWhen(s) ==
    IF Len(s) = 1 THEN s[1].when
    ELSE LET m == MinWhen(Tail(s)) IN IF s[1].when <= m THEN s[1].when ELSE m

RECURSIVE Callbacks(_)
Callbacks(s) ==
    IF s = <<>> THEN <<>>
    ELSE <<[task |-> Head(s).task, kind |-> Head(s).kind]>> \o Callbacks(Tail(s))

RECURSIVE WithoutTask(_, _)
\* Timer sequence s without the timers of task t (a cancelled sleep or
\* timeout handle).
WithoutTask(s, t) ==
    IF s = <<>> THEN <<>>
    ELSE IF Head(s).task = t THEN WithoutTask(Tail(s), t)
         ELSE <<Head(s)>> \o WithoutTask(Tail(s), t)

\* A top-level print statement (threadsexample.py lines 15 and 17).
TopPrint(p) ==
    /\ AsyncFrame
    /\ ~a_loop[p]
    /\ a_stmt[p] \in 1..Len(Program(p))
    /\ Program(p)[a_stmt[p]].op = "print"
    /\ a_out' = [a_out EXCEPT ![p] = Append(@, <<Program(p)[a_stmt[p]].arg>>)]
    /\ a_stmt' = [a_stmt EXCEPT ![p] = @ + 1]
    /\ UNCHANGED <<a_loop, co, a_ready, a_timers, a_clock, a_queue, a_i, a_t0>>

\* asyncio.run(coro()): a new loop with the coroutine as its only task.
AsyncioRun(p) ==
    /\ AsyncFrame
    /\ ~a_loop[p]
    /\ MainCoro(p) # "none"
    /\ a_loop' = [a_loop EXCEPT ![p] = TRUE]
    /\ co' = [co EXCEPT ![p] = [t \in TaskNames |-> IF t = "main" THEN Started ELSE NoTask]]
    /\ a_ready' = [a_ready EXCEPT ![p] = <<Step("main")>>]
    /\ a_timers' = [a_timers EXCEPT ![p] = <<>>]
    /\ a_t0' = [a_t0 EXCEPT ![p] = a_clock[p]]
    /\ UNCHANGED <<a_stmt, a_clock, a_out, a_queue, a_i>>

\* asyncio.run returns when its main task is done; the loop is closed.
RunReturns(p) ==
    /\ AsyncFrame
    /\ a_loop[p]
    /\ co[p]["main"].state = "done"
    /\ a_loop' = [a_loop EXCEPT ![p] = FALSE]
    /\ a_ready' = [a_ready EXCEPT ![p] = <<>>]
    /\ a_timers' = [a_timers EXCEPT ![p] = <<>>]
    /\ a_stmt' = [a_stmt EXCEPT ![p] = @ + 1]
    /\ UNCHANGED <<co, a_clock, a_out, a_queue, a_i, a_t0>>

\* Nothing is ready: the loop sleeps until the earliest timer and makes the
\* callbacks of the timers then due ready.
Tick(p) ==
    /\ AsyncFrame
    /\ a_loop[p]
    /\ co[p]["main"].state # "done"
    /\ a_ready[p] = <<>>
    /\ a_timers[p] # <<>>
    /\ LET w == MinWhen(a_timers[p])
       IN  /\ a_clock' = [a_clock EXCEPT ![p] = IF w > @ THEN w ELSE @]
           /\ a_ready' = [a_ready EXCEPT ![p] = Callbacks(SelectSeq2(a_timers[p], w, TRUE))]
           /\ a_timers' = [a_timers EXCEPT ![p] = SelectSeq2(a_timers[p], w, FALSE)]
    /\ UNCHANGED <<a_stmt, a_loop, co, a_out, a_queue, a_i, a_t0>>

\* Task t prints `line` (when it has one) and suspends in asyncio.sleep(d).
PrintAndSleep(p, t, line, d, pc) ==
    /\ a_out' = [a_out EXCEPT ![p] = @ \o line]
    /\ a_timers' = [a_timers EXCEPT ![p] =
                       Append(@, [when |-> a_clock[p] + d, task |-> t, kind |-> "step"])]
    /\ co' = [co EXCEPT ![p][t].pc = pc]
    /\ a_ready' = [a_ready EXCEPT ![p] = Tail(@)]

\* async.py lines 5-6.
HelloStart(p) ==
    /\ AsyncFrame
    /\ MainCoro(p) = "say_hello"
    /\ Runs(p, "main", "start")
    /\ PrintAndSleep(p, "main", << <<"Hello ...">> >>, HelloSleep, "sleep")
    /\ UNCHANGED <<a_stmt, a_loop, a_clock, a_queue, a_i, a_t0>>

\* async.py line 7.
HelloEnd(p) ==
    /\ AsyncFrame
    /\ MainCoro(p) = "say_hello"
    /\ Runs(p, "main", "sleep")
    /\ a_out' = [a_out EXCEPT ![p] = Append(@, <<"...world!">>)]
    /\ co' = [co EXCEPT ![p]["main"] = [pc |-> "end", state |-> "done"]]
    /\ a_ready' = [a_ready EXCEPT ![p] = Tail(@)]
    /\ UNCHANGED <<a_stmt, a_loop, a_timers, a_clock, a_queue, a_i, a_t0>>

\* async.py lines 18-22, threadsexample.py lines 9-13: gather wraps each
\* coroutine in a task, in argument order, and main awaits them all.
MainGather(p) ==
    /\ AsyncFrame
    /\ MainCoro(p) = "main"
    /\ Runs(p, "main", "start")
    /\ co' = [co EXCEPT ![p] = [t \in TaskNames |->
                 IF t = "main" THEN [pc |-> "gather", state |-> "pending"]
                 ELSE IF \E k \in 1..Len(Children) : Children[k] = t THEN Started
                 ELSE @[t]]]
    /\ a_ready' = [a_ready EXCEPT ![p] =
                      Tail(@) \o [k \in 1..Len(Children) |-> Step(Children[k])]]
    /\ UNCHANGED <<a_stmt, a_loop, a_timers, a_clock, a_out, a_queue, a_i, a_t0>>

\* task(name, delay): async.py lines 13-14, threadsexample.py lines 4-5.
TaskStart(p, t) ==
    /\ AsyncFrame
    /\ MainCoro(p) = "main"
    /\ t \in {"A", "B", "C"}
    /\ Runs(p, t, "start")
    /\ PrintAndSleep(p, t, <<StartLine(p, t)>>, Delay(p, t), "sleep")
    /\ UNCHANGED <<a_stmt, a_loop, a_clock, a_queue, a_i, a_t0>>

\* task(name, delay): async.py line 15, threadsexample.py line 6.  The task
\* is done; gather resumes main when that completes the gathering.
TaskFinish(p, t) ==
    /\ AsyncFrame
    /\ MainCoro(p) = "main"
    /\ t \in {"A", "B", "C"}
    /\ Runs(p, t, "sleep")
    /\ a_out' = [a_out EXCEPT ![p] = Append(@, EndLine(p, t))]
    /\ co' = [co EXCEPT ![p][t] = [pc |-> "end", state |-> "done"]]
    /\ a_ready' = [a_ready EXCEPT ![p] =
                      IF GatherDone(co'[p]) /\ ~GatherDone(co[p])
                      THEN Append(Tail(@), Step("main")) ELSE Tail(@)]
    /\ UNCHANGED <<a_stmt, a_loop, a_timers, a_clock, a_queue, a_i, a_t0>>

\* main() returns from `await asyncio.gather(...)`.
MainGathered(p) ==
    /\ AsyncFrame
    /\ MainCoro(p) = "main"
    /\ Runs(p, "main", "gather")
    /\ co' = [co EXCEPT ![p]["main"] = [pc |-> "end", state |-> "done"]]
    /\ a_ready' = [a_ready EXCEPT ![p] = Tail(@)]
    /\ UNCHANGED <<a_stmt, a_loop, a_timers, a_clock, a_out, a_queue, a_i, a_t0>>

\* async.py line 35, `await t`: the awaiting coroutine is suspended unless
\* the task is finished already.
AwaitSuspends_Never(task) == FALSE
AwaitSuspends(task) == task.state # "done"

\* async.py lines 33-35: create_task schedules quick_task, main2 prints and
\* then suspends in `await t`.
Main2Start(p) ==
    /\ AsyncFrame
    /\ MainCoro(p) = "main2"
    /\ Runs(p, "main", "start")
    /\ co' = [co EXCEPT ![p]["main"] = IF AwaitSuspends(Started)
                                        THEN [pc |-> "await_t", state |-> "pending"]
                                        ELSE [pc |-> "end", state |-> "done"],
                        ![p]["quick"] = Started]
    /\ a_ready' = [a_ready EXCEPT ![p] = Append(Tail(@), Step("quick"))]
    /\ a_out' = [a_out EXCEPT ![p] = Append(@, <<"Main2 continues...">>)]
    /\ UNCHANGED <<a_stmt, a_loop, a_timers, a_clock, a_queue, a_i, a_t0>>

\* async.py lines 28-29.
QuickStart(p) ==
    /\ AsyncFrame
    /\ Runs(p, "quick", "start")
    /\ PrintAndSleep(p, "quick", << <<"Quick task running">> >>, QuickSleep, "sleep")
    /\ UNCHANGED <<a_stmt, a_loop, a_clock, a_queue, a_i, a_t0>>

\* async.py line 30; the task awaited by main2 is done, main2 is resumed.
QuickEnd(p) ==
    /\ AsyncFrame
    /\ Runs(p, "quick", "sleep")
    /\ a_out' = [a_out EXCEPT ![p] = Append(@, <<"Quick task done">>)]
    /\ co' = [co EXCEPT ![p]["quick"] = [pc |-> "end", state |-> "done"]]
    /\ a_ready' = [a_ready EXCEPT ![p] = Append(Tail(@), Step("main"))]
    /\ UNCHANGED <<a_stmt, a_loop, a_timers, a_clock, a_queue, a_i, a_t0>>

\* main2 returns from `await t`.
Main2End(p) ==
    /\ AsyncFrame
    /\ MainCoro(p) = "main2"
    /\ Runs(p, "main", "await_t")
    /\ co' = [co EXCEPT ![p]["main"] = [pc |-> "end", state |-> "done"]]
    /\ a_ready' = [a_ready EXCEPT ![p] = Tail(@)]
    /\ UNCHANGED <<a_stmt, a_loop, a_timers, a_clock, a_out, a_queue, a_i, a_t0>>

\* async.py lines 51-52: a fresh unbounded queue; producer starts.
Main3Start(p) ==
    /\ AsyncFrame
    /\ MainCoro(p) = "main3"
    /\ Runs(p, "main", "start")
    /\ a_queue' = [a_queue EXCEPT ![p] = <<>>]
    /\ a_i' = [a_i EXCEPT ![p] = 0]
    /\ co' = [co EXCEPT ![p]["main"].pc = "producer"]
    /\ UNCHANGED <<a_stmt, a_loop, a_ready, a_timers, a_clock, a_out, a_t0>>

\* async.py lines 41-43: put on an unbounded queue never suspends, so the
\* main task keeps running; after the last item producer returns and
\* line 53 calls consumer.
Produce(p) ==
    /\ AsyncFrame
    /\ MainCoro(p) = "main3"
    /\ Runs(p, "main", "producer")
    /\ IF a_i[p] < NumItems
       THEN /\ a_queue' = [a_queue EXCEPT ![p] = Append(@, a_i[p])]
            /\ a_out' = [a_out EXCEPT ![p] = Append(@, <<"Produced", Str(a_i[p])>>)]
            /\ a_i' = [a_i EXCEPT ![p] = @ + 1]
            /\ co' = co
       ELSE /\ co' = [co EXCEPT ![p]["main"].pc = "consumer"]
            /\ UNCHANGED <<a_queue, a_out, a_i>>
    /\ UNCHANGED <<a_stmt, a_loop, a_ready, a_timers, a_clock, a_t0>>

\* async.py line 47: queue.get() of a non-empty asyncio.Queue returns the
\* oldest item.
QueueGet_Newest(q) == q[Len(q)]
QueueGet(q) == Head(q)

\* async.py lines 46-48: get on a non-empty queue does not suspend; when the
\* queue is empty consumer returns, and so does main3.
Consume(p) ==
    /\ AsyncFrame
    /\ MainCoro(p) = "main3"
    /\ Runs(p, "main", "consumer")
    /\ IF a_queue[p] # <<>>
       THEN /\ a_queue' = [a_queue EXCEPT ![p] = Tail(@)]
            /\ a_out' = [a_out EXCEPT ![p] = Append(@, <<"Consumed", Str(QueueGet(a_queue[p]))>>)]
            /\ UNCHANGED <<co, a_ready>>
       ELSE /\ co' = [co EXCEPT ![p]["main"] = [pc |-> "end", state |-> "done"]]
            /\ a_ready' = [a_ready EXCEPT ![p] = Tail(@)]
            /\ UNCHANGED <<a_queue, a_out>>
    /\ UNCHANGED <<a_stmt, a_loop, a_timers, a_clock, a_i, a_t0>>

\* async.py line 64: wait_for wraps long_task() in a task, arms the timeout
\* and suspends main4 until either tells.
Main4Start(p) ==
    /\ AsyncFrame
    /\ MainCoro(p) = "main4"
    /\ Runs(p, "main", "start")
    /\ co' = [co EXCEPT ![p]["main"].pc = "wait_for", ![p]["long"] = Started]
    /\ a_ready' = [a_ready EXCEPT ![p] = Append(Tail(@), Step("long"))]
    /\ a_timers' = [a_timers EXCEPT ![p] =
                       Append(@, [when |-> a_clock[p] + WaitForTimeout,
                                  task |-> "main", kind |-> "timeout"])]
    /\ UNCHANGED <<a_stmt, a_loop, a_clock, a_out, a_queue, a_i, a_t0>>

\* async.py line 59.
LongStart(p) ==
    /\ AsyncFrame
    /\ Runs(p, "long", "start")
    /\ PrintAndSleep(p, "long", <<>>, LongTaskSleep, "sleep")
    /\ UNCHANGED <<a_stmt, a_loop, a_clock, a_queue, a_i, a_t0>>

\* The timeout of wait_for expires before long_task is done: wait_for cancels
\* the task (its sleep is dropped and CancelledError is thrown into it) and
\* waits for the cancellation.
TimeoutFires(p) ==
    /\ AsyncFrame
    /\ a_loop[p]
    /\ a_ready[p] # <<>>
    /\ Head(a_ready[p]).kind = "timeout"
    /\ IF co[p]["long"].state = "pending"
       THEN /\ a_timers' = [a_timers EXCEPT ![p] = WithoutTask(@, "long")]
            /\ a_ready' = [a_ready EXCEPT ![p] =
                              Append(Tail(@), [task |-> "long", kind |-> "cancel"])]
       ELSE /\ a_ready' = [a_ready EXCEPT ![p] = Tail(@)]
            /\ a_timers' = a_timers
    /\ UNCHANGED <<a_stmt, a_loop, co, a_clock, a_out, a_queue, a_i, a_t0>>

\* long_task is resumed in its sleep: by the CancelledError of wait_for, which
\* ends it cancelled, or by the end of the sleep, after which line 60 returns
\* "done".  Either way wait_for resumes main4.
LongResume(p) ==
    /\ AsyncFrame
    /\ Runs(p, "long", "sleep")
    /\ co' = [co EXCEPT ![p]["long"] =
                 IF Head(a_ready[p]).kind = "cancel"
                 THEN [pc |-> "sleep", state |-> "cancelled"]
                 ELSE [pc |-> "end", state |-> "done"]]
    /\ a_ready' = [a_ready EXCEPT ![p] = Append(Tail(@), Step("main"))]
    /\ UNCHANGED <<a_stmt, a_loop, a_timers, a_clock, a_out, a_queue, a_i, a_t0>>

\* async.py lines 63-68: wait_for raises TimeoutError when it had to cancel
\* the task, and returns the task's result otherwise.
Main4Resume(p) ==
    /\ AsyncFrame
    /\ MainCoro(p) = "main4"
    /\ Runs(p, "main", "wait_for")
    /\ a_out' = [a_out EXCEPT ![p] =
                    IF co[p]["long"].state = "cancelled"
                    THEN Append(@, <<"Timeout!">>)
                    ELSE Append(@, <<"Result:", "done">>)]
    /\ a_timers' = [a_timers EXCEPT ![p] = WithoutTask(@, "main")]
    /\ co' = [co EXCEPT ![p]["main"] = [pc |-> "end", state |-> "done"]]
    /\ a_ready' = [a_ready EXCEPT ![p] = Tail(@)]
    /\ UNCHANGED <<a_stmt, a_loop, a_clock, a_queue, a_i, a_t0>>

AsyncNext ==
    \/ \E p \in Scripts : TopPrint(p)
    \/ \E p \in Scripts : AsyncioRun(p)
    \/ \E p \in Scripts : RunReturns(p)
    \/ \E p \in Scripts : Tick(p)
    \/ \E p \in Scripts : HelloStart(p)
    \/ \E p \in Scripts : HelloEnd(p)
    \/ \E p \in Scripts : MainGather(p)
    \/ \E p \in Scripts, t \in TaskNames : TaskStart(p, t)
    \/ \E p \in Scripts, t \in TaskNames : TaskFinish(p, t)
    \/ \E p \in Scripts : MainGathered(p)
    \/ \E p \in Scripts : Main2Start(p)
    \/ \E p \in Scripts : QuickStart(p)
    \/ \E p \in Scripts : QuickEnd(p)
    \/ \E p \in Scripts : Main2End(p)
    \/ \E p \in Scripts : Main3Start(p)
    \/ \E p \in Scripts : Produce(p)
    \/ \E p \in Scripts : Consume(p)
    \/ \E p \in Scripts : Main4Start(p)
    \/ \E p \in Scripts : LongStart(p)
    \/ \E p \in Scripts : TimeoutFires(p)
    \/ \E p \in Scripts : LongResume(p)
    \/ \E p \in Scripts : Main4Resume(p)

\* Each script is about to execute its first statement.
AsyncInit ==
    /\ a_stmt = [p \in Scripts |-> 1]
    /\ a_loop = [p \in Scripts |-> FALSE]
    /\ co = [p \in Scripts |-> [t \in TaskNames |-> NoTask]]
    /\ a_ready = [p \in Scripts |-> <<>>]
    /\ a_timers = [p \in Scripts |-> <<>>]
    /\ a_clock = [p \in Scripts |-> 0]
    /\ a_out = [p \in Scripts |-> <<>>]
    /\ a_queue = [p \in Scripts |-> <<>>]
    /\ a_i = [p \in Scripts |-> 0]
    /\ a_t0 = [p \in Scripts |-> 0]

(***************************************************************************)
(*                       src/python/oop/class3.py                          *)
(*                                                                         *)
(* class ReportView(bases...) over the mixins of the file; the file's own  *)
(* two definitions are ReportView(AuthMixin, CacheMixin), line 14, and     *)
(* ReportView(AuthMixin, CacheMixin, LoggingMixin), line 40.               *)
(***************************************************************************)

Mixins == {"AuthMixin", "CacheMixin", "LoggingMixin"}

\* The base lists a class statement can give ReportView: mixins, each once.
BaseLists ==
    { s \in SeqsUpTo(Mixins, Cardinality(Mixins)) :
        s # <<>> /\ \A i, j \in 1..Len(s) : i # j => s[i] # s[j] }

\* The bases of each class (object, the base of BaseView, is left out: it
\* has no handle).
Bases(c) ==
    CASE c = "ReportView" -> v_bases
      [] c = "BaseView"   -> <<>>
      [] OTHER            -> <<"BaseView">>

\* What each class's handle puts in front of the list.
Label(c) ==
    CASE c = "ReportView"   -> "report"
      [] c = "AuthMixin"    -> "auth"
      [] c = "CacheMixin"   -> "cache"
      [] c = "LoggingMixin" -> "logging"
      [] c = "BaseView"     -> "base"

InTail(c, l) == \E i \in 2..Len(l) : l[i] = c

RECURSIVE Merge(_)
\* The merge of C3 linearisation: take the first head that is in no list's
\* tail, drop it from every list, repeat.
Merge(lists) ==
    LET ne == SelectSeq(lists, LAMBDA l : l # <<>>)
    IN  IF ne = <<>> THEN <<>>
        ELSE LET good == { k \in 1..Len(ne) :
                             \A j \in 1..Len(ne) : ~InTail(Head(ne[k]), ne[j]) }
                 k0   == CHOOSE k \in good : \A m \in good : k <= m
                 h    == Head(ne[k0])
             IN  <<h>> \o Merge([j \in 1..Len(ne) |->
                                   IF Head(ne[j]) = h THEN Tail(ne[j]) ELSE ne[j]])

RECURSIVE Mro(_)
\* cls.__mro__: the class, then the merge of its bases' linearisations and
\* the list of its bases.
Mro(c) ==
    LET bs == Bases(c)
    IN  <<c>> \o Merge([k \in 1..Len(bs) |-> Mro(bs[k])] \o <<bs>>)

IndexOf(s, c) == CHOOSE i \in 1..Len(s) : s[i] = c

\* super() inside class c's handle, on an instance of class t: the class
\* after c in the method resolution order of t.
Super_FirstBase(c, t) == Bases(c)[1]
Super(c, t) == Mro(t)[IndexOf(Mro(t), c) + 1]

\* A class statement binds ReportView with base list bs, and
\* ReportView().handle() is called (lines 14-18, lines 40-44).
CallHandle(bs) ==
    /\ MroFrame
    /\ v_pc = "idle"
    /\ v_bases' = bs
    /\ v_stack' = <<"ReportView">>
    /\ v_ret' = <<>>
    /\ v_pc' = "call"

\* return [label] + super().handle(): the super call comes first.
CallSuper ==
    /\ MroFrame
    /\ v_pc = "call"
    /\ Head(v_stack) # "BaseView"
    /\ v_stack' = <<Super(Head(v_stack), v_stack[Len(v_stack)])>> \o v_stack
    /\ UNCHANGED <<v_bases, v_ret, v_pc>>

\* BaseView.handle: return ["base"].
BaseHandle ==
    /\ MroFrame
    /\ v_pc = "call"
    /\ Head(v_stack) = "BaseView"
    /\ v_ret' = <<Label("BaseView")>>
    /\ v_stack' = Tail(v_stack)
    /\ v_pc' = IF Tail(v_stack) = <<>> THEN "done" ELSE "return"
    /\ UNCHANGED v_bases

\* The super call has returned: [label] + its value is returned in turn.
ReturnHandle ==
    /\ MroFrame
    /\ v_pc = "return"
    /\ v_ret' = <<Label(Head(v_stack))>> \o v_ret
    /\ v_stack' = Tail(v_stack)
    /\ v_pc' = IF Tail(v_stack) = <<>> THEN "done" ELSE "return"
    /\ UNCHANGED v_bases

\* print(...) of lines 18 and 44; the next class statement may follow.
PrintHandled ==
    /\ MroFrame
    /\ v_pc = "done"
    /\ v_pc' = "idle"
    /\ v_stack' = <<>>
    /\ v_ret' = <<>>
    /\ UNCHANGED v_bases

MroNext ==
    \/ \E bs \in BaseLists : CallHandle(bs)
    \/ CallSuper
    \/ BaseHandle
    \/ ReturnHandle
    \/ PrintHandled

\* Lines 2-12: BaseView and the mixins are defined, ReportView is not yet.
MroInit ==
    /\ v_pc = "idle"
    /\ v_bases = <<>>
    /\ v_stack = <<>>
    /\ v_ret = <<>>

(***************************************************************************)
(*                  src/python/oop.py, class CachedGadget                  *)
(***************************************************************************)

\* 'Raven' and its two features are those of lines 84-85.
Names == {"Raven", "Drone"}
Features == {"optical kit", "thermal kit"}

\* An object as object.__new__ leaves it: no attribute set.
Bare == [name |-> "", feature |-> "", initialized |-> FALSE]

\* Line 48: name in cls._cache.
IsCached_Never(name) == FALSE
IsCached(name) == g_cache[name] # 0

\* Lines 47-54: CachedGadget.__new__(cls, name, feature), the first half of
\* the call CachedGadget(name, feature).
GadgetNew(name, feature) ==
    /\ GadgetFrame
    /\ g_pc = "idle"
    /\ Len(g_log) < MaxConstructions
    /\ IF IsCached(name)
       THEN /\ g_call' = [name |-> name, feature |-> feature, obj |-> g_cache[name]]
            /\ UNCHANGED <<g_cache, g_heap>>
       ELSE LET instance == Len(g_heap) + 1
            IN  /\ g_heap' = Append(g_heap, Bare)
                /\ g_cache' = [g_cache EXCEPT ![name] = instance]
                /\ g_call' = [name |-> name, feature |-> feature, obj |-> instance]
    /\ g_pc' = "init"
    /\ UNCHANGED g_log

\* Line 57: getattr(self, "_initialized", False).
Initialized_Never(obj) == FALSE
Initialized(obj) == g_heap[obj].initialized

\* Lines 56-62: __new__ returned an instance of the class, so __init__ runs
\* on it with the same arguments; the call then returns the object.
GadgetInitialise ==
    /\ GadgetFrame
    /\ g_pc = "init"
    /\ IF Initialized(g_call.obj)
       THEN g_heap' = g_heap
       ELSE g_heap' = [g_heap EXCEPT ![g_call.obj] =
                          [name |-> g_call.name, feature |-> g_call.feature,
                           initialized |-> TRUE]]
    /\ g_log' = Append(g_log, g_call)
    /\ g_pc' = "idle"
    /\ UNCHANGED <<g_cache, g_call>>

GadgetNext ==
    \/ \E name \in Names, feature \in Features : GadgetNew(name, feature)
    \/ GadgetInitialise

\* Line 45: _cache = {}.
GadgetInit ==
    /\ g_pc = "idle"
    /\ g_cache = [n \in Names |-> 0]
    /\ g_heap = <<>>
    /\ g_call = [name |-> "", feature |-> "", obj |-> 0]
    /\ g_log = <<>>

(***************************************************************************)
(*                src/python/oop/class5.py, CustomerRecord                 *)
(***************************************************************************)

\* 'Alice' is the customer of line 50.
CustomerNames == {"Alice", "Bob"}

\* Lines 10-11: None, the value of a timestamp that was never set.  Readings
\* of the clock are positive.
NoTimestamp == 0

\* Lines 15-16: created_at after touch() read `now`.
CreatedAt_Overwritten(created, now) == now
CreatedAt(created, now) == IF created = NoTimestamp THEN now ELSE created

\* Lines 33-36: CustomerRecord(name) runs both mixins' __init__ and sets name.
NewCustomer(name) ==
    /\ CustomerFrame
    /\ c_pc = "none"
    /\ c_pc' = "live"
    /\ c_name' = name
    /\ c_created' = NoTimestamp
    /\ c_updated' = NoTimestamp
    /\ c_deleted' = FALSE
    /\ UNCHANGED <<c_clock, c_saves>>

\* Lines 38-39 and 13-17: save() is touch().
Save ==
    /\ CustomerFrame
    /\ c_pc = "live"
    /\ Len(c_saves) < MaxSaves
    /\ LET now == c_clock
       IN  /\ c_created' = CreatedAt(c_created, now)
           /\ c_updated' = now
           /\ c_saves' = Append(c_saves, now)
    /\ UNCHANGED <<c_pc, c_name, c_deleted, c_clock>>

\* Line 27: the flag after delete(), whatever it was.
MarkDeleted_Toggled(deleted) == ~deleted
MarkDeleted(deleted) == TRUE

\* Lines 26-27: delete().
Delete ==
    /\ CustomerFrame
    /\ c_pc = "live"
    /\ c_deleted' = MarkDeleted(c_deleted)
    /\ UNCHANGED <<c_pc, c_name, c_created, c_updated, c_clock, c_saves>>

\* Time passes between two calls: the clock of line 14 moves forward.
ClockAdvance ==
    /\ CustomerFrame
    /\ c_clock < MaxClock
    /\ c_clock' = c_clock + 1
    /\ UNCHANGED <<c_pc, c_name, c_created, c_updated, c_deleted, c_saves>>

CustomerNext ==
    \/ \E name \in CustomerNames : NewCustomer(name)
    \/ Save
    \/ Delete
    \/ ClockAdvance

\* Before line 50 runs.
CustomerInit ==
    /\ c_pc = "none"
    /\ c_name = ""
    /\ c_created = NoTimestamp
    /\ c_updated = NoTimestamp
    /\ c_deleted = FALSE
    /\ c_clock = 1
    /\ c_saves = <<>>

(***************************************************************************)
(*    src/python/langchain_langgraph_chatbot.py, the tool-calling agents   *)
(***************************************************************************)

\* Lines 219 and 296: the two functions that build the agent graph.
AgentExamples == {"langgraph_agent_chatbot", "langgraph_agent_with_memory"}

\* Lines 278-282 and 332-336: each example passes three inputs.
NumTurns == 3

\* Lines 286 and 343: app.invoke is given no recursion_limit, so the graph
\* runs under the library's default limit of supersteps.
RecursionLimit == 25

\* Line 229: the tools bound to the model, and the tool calls one response
\* can carry (one call, or two as the third query of line 281 asks for).
ToolCallLists == {<<"get_weather">>, <<"calculate", "get_weather">>}

\* How the model may behave over one run: it gives its final answer after
\* at most MaxRounds responses with tool calls, or it asks for a tool in
\* every response.
LlmBehaviours == {"answers", "insists"}

HumanMessage(turn) ==
    [type |-> "human", turn |-> turn, step |-> 0, name |-> "",
     has_tool_calls |-> FALSE, tool_calls |-> <<>>]

\* The response of llm_with_tools.invoke: an AIMessage.
AIMessage(turn, step, tcalls) ==
    [type |-> "ai", turn |-> turn, step |-> step, name |-> "",
     has_tool_calls |-> TRUE, tool_calls |-> tcalls]

ToolMessage(turn, step, name) ==
    [type |-> "tool", turn |-> turn, step |-> step, name |-> name,
     has_tool_calls |-> FALSE, tool_calls |-> <<>>]

\* Lines 214-216: AgentState declares messages: Sequence[BaseMessage] with
\* no reducer annotation, so an update written to the key becomes its value.
UpdateMessages(old, update) == update

\* Lines 234-243 and 308-312.
ShouldContinue_Inverted(state) ==
    LET last_message == state[Len(state)]
    IN  IF ~last_message.has_tool_calls \/ last_message.tool_calls = <<>>
        THEN "continue"
        ELSE "end"
ShouldContinue(state) ==
    LET last_message == state[Len(state)]
    IN  IF ~last_message.has_tool_calls \/ last_message.tool_calls = <<>>
        THEN "end"
        ELSE "continue"

\* Lines 262-269 and 322: the mapping of the conditional edge of "agent".
AfterAgent(state) == IF ShouldContinue(state) = "continue" THEN "tools" ELSE "END"

\* Lines 219 and 296: one of the two functions is called.
CallExample(e) ==
    /\ AgentFrame
    /\ ag_ex = "none"
    /\ ag_ex' = e
    /\ ag_pc' = "idle"
    /\ ag_turn' = 0
    /\ ag_local' = <<>>
    /\ ag_state' = <<>>
    /\ ag_said' = <<>>
    /\ ag_input' = <<>>
    /\ ag_produced' = <<>>
    /\ ag_trace' = <<>>
    /\ UNCHANGED <<ag_llm, ag_steps, ag_rounds>>

\* Lines 284-288 and 339-343: the next input is passed to app.invoke, which
\* writes it to the state and schedules the entry point (lines 259, 321).
AppInvoke(llm) ==
    /\ AgentFrame
    /\ ag_ex # "none"
    /\ ag_pc = "idle"
    /\ ag_turn < NumTurns
    /\ LET human == HumanMessage(ag_turn + 1)
           messages == IF ag_ex = "langgraph_agent_with_memory"
                       THEN Append(ag_local, human)
                       ELSE <<human>>
       IN  /\ ag_local' = IF ag_ex = "langgraph_agent_with_memory"
                          THEN messages ELSE ag_local
           /\ ag_state' = UpdateMessages(ag_state, messages)
           /\ ag_input' = messages
           /\ ag_said' = Append(ag_said, human)
    /\ ag_turn' = ag_turn + 1
    /\ ag_llm' = llm
    /\ ag_steps' = 0
    /\ ag_rounds' = 0
    /\ ag_produced' = <<>>
    /\ ag_trace' = <<>>
    /\ ag_pc' = "agent"
    /\ UNCHANGED ag_ex

\* Lines 245-249 and 314-316: call_model, with the routing of the
\* conditional edge that follows it.
CallModel(tcalls) ==
    /\ AgentFrame
    /\ ag_pc = "agent"
    /\ ag_steps < RecursionLimit
    /\ \/ ag_llm = "answers" /\ (tcalls # <<>> => ag_rounds < MaxRounds)
       \/ ag_llm = "insists" /\ tcalls = <<"get_weather">>
    /\ LET ai_message == AIMessage(ag_turn, ag_steps + 1, tcalls)
       IN  /\ ag_state' = UpdateMessages(ag_state, <<ai_message>>)
           /\ ag_produced' = Append(ag_produced, ai_message)
           /\ ag_said' = Append(ag_said, ai_message)
    /\ ag_trace' = Append(ag_trace, [node |-> "agent", tool_calls |-> tcalls])
    /\ ag_pc' = AfterAgent(ag_state')
    /\ ag_steps' = ag_steps + 1
    /\ ag_rounds' = IF tcalls # <<>> THEN ag_rounds + 1 ELSE ag_rounds
    /\ UNCHANGED <<ag_ex, ag_turn, ag_local, ag_llm, ag_input>>

\* Lines 256 and 320: ToolNode(tools) answers every tool call of the last
\* message with a ToolMessage; line 272 (323) then leads back to "agent".
ToolsNode ==
    /\ AgentFrame
    /\ ag_pc = "tools"
    /\ ag_steps < RecursionLimit
    /\ LET tcalls == ag_state[Len(ag_state)].tool_calls
           outputs == [i \in 1..Len(tcalls) |->
                          ToolMessage(ag_turn, ag_steps + 1, tcalls[i])]
       IN  /\ ag_state' = UpdateMessages(ag_state, outputs)
           /\ ag_produced' = ag_produced \o outputs
    /\ ag_trace' = Append(ag_trace, [node |-> "tools", tool_calls |-> <<>>])
    /\ ag_pc' = "agent"
    /\ ag_steps' = ag_steps + 1
    /\ UNCHANGED <<ag_ex, ag_turn, ag_local, ag_llm, ag_rounds, ag_input, ag_said>>

\* Lines 286 and 343: a node is still due when the limit of supersteps is
\* used up: app.invoke raises and the example function is left.
OutOfSteps_Never == FALSE /\ UNCHANGED vars
OutOfSteps ==
    /\ AgentFrame
    /\ ag_pc \in {"agent", "tools"}
    /\ ag_steps = RecursionLimit
    /\ ag_pc' = "raised"
    /\ UNCHANGED <<ag_ex, ag_turn, ag_local, ag_state, ag_llm, ag_steps,
                   ag_rounds, ag_input, ag_produced, ag_said, ag_trace>>

\* Lines 286-289 and 343-345: app.invoke returns the final state;
\* langgraph_agent_with_memory keeps result["messages"] as its `messages`.
InvokeReturns ==
    /\ AgentFrame
    /\ ag_pc = "END"
    /\ ag_pc' = "idle"
    /\ ag_local' = IF ag_ex = "langgraph_agent_with_memory"
                   THEN ag_state ELSE ag_local
    /\ ag_state' = IF ag_ex = "langgraph_agent_with_memory" THEN ag_state ELSE <<>>
    /\ UNCHANGED <<ag_ex, ag_turn, ag_llm, ag_steps, ag_rounds, ag_input,
                   ag_produced, ag_said, ag_trace>>

\* Lines 284 and 339: the for loop is exhausted and the function returns.
ExampleReturns ==
    /\ AgentFrame
    /\ ag_ex # "none"
    /\ ag_pc = "idle"
    /\ ag_turn = NumTurns
    /\ ag_ex' = "none"
    /\ UNCHANGED <<ag_pc, ag_turn, ag_local, ag_state, ag_llm, ag_steps,
                   ag_rounds, ag_input, ag_produced, ag_said, ag_trace>>

AgentNext ==
    \/ \E e \in AgentExamples : CallExample(e)
    \/ \E llm \in LlmBehaviours : AppInvoke(llm)
    \/ \E tcalls \in ToolCallLists \cup {<<>>} : CallModel(tcalls)
    \/ ToolsNode
    \/ OutOfSteps
    \/ InvokeReturns
    \/ ExampleReturns

\* What app.invoke does by itself once it is called: the node that is due
\* runs, or the run is cut.
GraphStep ==
    \/ \E tcalls \in ToolCallLists \cup {<<>>} : CallModel(tcalls)
    \/ ToolsNode
    \/ OutOfSteps

\* Lines 366-372: the module's main block calls neither function.
AgentInit ==
    /\ ag_ex = "none"
    /\ ag_pc = "idle"
    /\ ag_turn = 0
    /\ ag_local = <<>>
    /\ ag_state = <<>>
    /\ ag_llm = "answers"
    /\ ag_steps = 0
    /\ ag_rounds = 0
    /\ ag_input = <<>>
    /\ ag_produced = <<>>
    /\ ag_said = <<>>
    /\ ag_trace = <<>>

(***************************************************************************)
(*           src/python/threads.py, section 5: daemon threads              *)
(***************************************************************************)

\* Lines 73 and 77: the arguments of time.sleep, in seconds.
BackgroundSleep == 1
MainSleep == 3

BackgroundLine == "Background task running..."
MainDoneLine == "Main thread done. Daemon will exit."

\* Line 75: daemon=True.
IsDaemon_False == FALSE
IsDaemon == TRUE

\* Lines 75-76: the thread is created and started.
StartDaemonThread ==
    /\ DaemonFrame
    /\ d_proc = "running"
    /\ d_main = "line75"
    /\ d_main' = "line77"
    /\ d_daemon' = "line72"
    /\ UNCHANGED <<d_proc, d_clock, d_wake, d_out, d_final>>

\* Line 77: the main thread calls time.sleep(3).
MainSleeps ==
    /\ DaemonFrame
    /\ d_proc = "running"
    /\ d_main = "line77"
    /\ d_main' = "sleeping"
    /\ d_wake' = [d_wake EXCEPT !["main"] = d_clock + MainSleep]
    /\ UNCHANGED <<d_daemon, d_proc, d_clock, d_out, d_final>>

\* Line 77: time.sleep(3) returns, not before its time.
MainWakes ==
    /\ DaemonFrame
    /\ d_proc = "running"
    /\ d_main = "sleeping"
    /\ d_clock >= d_wake["main"]
    /\ d_main' = "line78"
    /\ UNCHANGED <<d_daemon, d_proc, d_clock, d_wake, d_out, d_final>>

\* Line 78.
MainPrints ==
    /\ DaemonFrame
    /\ d_proc = "running"
    /\ d_main = "line78"
    /\ d_out' = Append(d_out, MainDoneLine)
    /\ d_main' = "end"
    /\ UNCHANGED <<d_daemon, d_proc, d_clock, d_wake, d_final>>

\* End of the script: the interpreter waits for the threads that are not
\* daemons and shuts down; daemon threads stop with it.
ProcessExits ==
    /\ DaemonFrame
    /\ d_proc = "running"
    /\ d_main = "end"
    /\ IsDaemon \/ d_daemon = "returned"
    /\ d_proc' = "exited"
    /\ d_final' = d_out
    /\ UNCHANGED <<d_main, d_daemon, d_clock, d_wake, d_out>>

\* Line 72, under `while True` (line 71).
BackgroundPrints ==
    /\ DaemonFrame
    /\ d_proc = "running"
    /\ d_daemon = "line72"
    /\ d_out' = Append(d_out, BackgroundLine)
    /\ d_daemon' = "line73"
    /\ UNCHANGED <<d_main, d_proc, d_clock, d_wake, d_final>>

\* Line 73: the daemon calls time.sleep(1).
BackgroundSleeps ==
    /\ DaemonFrame
    /\ d_proc = "running"
    /\ d_daemon = "line73"
    /\ d_daemon' = "sleeping"
    /\ d_wake' = [d_wake EXCEPT !["daemon"] = d_clock + BackgroundSleep]
    /\ UNCHANGED <<d_main, d_proc, d_clock, d_out, d_final>>

\* Line 73: time.sleep(1) returns and the loop of line 71 goes round.
BackgroundWakes ==
    /\ DaemonFrame
    /\ d_proc = "running"
    /\ d_daemon = "sleeping"
    /\ d_clock >= d_wake["daemon"]
    /\ d_daemon' = "line72"
    /\ UNCHANGED <<d_main, d_proc, d_clock, d_wake, d_out, d_final>>

\* A second passes while both threads sleep (a thread may oversleep).
SecondPasses ==
    /\ DaemonFrame
    /\ d_proc = "running"
    /\ d_main = "sleeping"
    /\ d_daemon = "sleeping"
    /\ d_clock < MaxSeconds
    /\ d_clock' = d_clock + 1
    /\ UNCHANGED <<d_main, d_daemon, d_proc, d_wake, d_out, d_final>>

MainThreadStep ==
    StartDaemonThread \/ MainSleeps \/ MainWakes \/ MainPrints \/ ProcessExits

BackgroundThreadStep ==
    BackgroundPrints \/ BackgroundSleeps \/ BackgroundWakes

DaemonNext ==
    \/ StartDaemonThread
    \/ MainSleeps
    \/ MainWakes
    \/ MainPrints
    \/ ProcessExits
    \/ BackgroundPrints
    \/ BackgroundSleeps
    \/ BackgroundWakes
    \/ SecondPasses

\* Before line 75; background_task is defined (lines 70-73).
DaemonInit ==
    /\ d_main = "line75"
    /\ d_daemon = "unstarted"
    /\ d_proc = "running"
    /\ d_clock = 0
    /\ d_wake = [t \in {"main", "daemon"} |-> 0]
    /\ d_out = <<>>
    /\ d_final = <<>>

(***************************************************************************)
(*                src/python/files.py, copy_large_file                     *)
(***************************************************************************)

\* The paths of the example of line 42.
Paths == {"bigfile.txt", "bigfile_copy.txt"}
Bytes == {0, 1}
Contents == SeqsUpTo(Bytes, MaxLen)
BufferSizes == 1..MaxBuf

NoFile == [exists |-> FALSE, data |-> <<>>]
File(data) == [exists |-> TRUE, data |-> data]

Min(a, b) == IF a <= b THEN a ELSE b

\* Line 36: fsrc.read(n) at position pos of a file opened 'rb': the next n
\* bytes of the file as it is now, fewer at the end of the file, none after.
ReadBytes(data, pos, n) == SubSeq(data, pos + 1, Min(pos + n, Len(data)))

\* Line 39: fdst.write(buf) at position pos of a file opened 'wb'.
WriteBytes(data, pos, buf) ==
    SubSeq(data, 1, pos) \o buf \o SubSeq(data, pos + Len(buf) + 1, Len(data))

\* Some program stores a file before the function is called.
StoreFile(path, data) ==
    /\ CopyFrame
    /\ f_pc = "idle"
    /\ f_fs' = [f_fs EXCEPT ![path] = File(data)]
    /\ UNCHANGED <<f_pc, f_src, f_dst, f_size, f_rpos, f_wpos, f_buf, f_reads,
                   f_before>>

\* Line 33: copy_large_file(src, dst, buffer_size) is called.
CallCopy(src, dst, buffer_size) ==
    /\ CopyFrame
    /\ f_pc = "idle"
    /\ f_pc' = "open_src"
    /\ f_src' = src
    /\ f_dst' = dst
    /\ f_size' = buffer_size
    /\ f_before' = f_fs
    /\ f_reads' = 0
    /\ UNCHANGED <<f_fs, f_rpos, f_wpos, f_buf>>

\* Line 34: open(src, 'rb').
OpenSrc ==
    /\ CopyFrame
    /\ f_pc = "open_src"
    /\ IF f_fs[f_src].exists
       THEN /\ f_pc' = "open_dst"
            /\ f_rpos' = 0
       ELSE /\ f_pc' = "raised"
            /\ f_rpos' = f_rpos
    /\ UNCHANGED <<f_fs, f_src, f_dst, f_size, f_wpos, f_buf, f_reads, f_before>>

\* Line 34: open(dst, 'wb') creates the file or truncates it.
OpenDst ==
    /\ CopyFrame
    /\ f_pc = "open_dst"
    /\ f_fs' = [f_fs EXCEPT ![f_dst] = File(<<>>)]
    /\ f_wpos' = 0
    /\ f_pc' = "read"
    /\ UNCHANGED <<f_src, f_dst, f_size, f_rpos, f_buf, f_reads, f_before>>

\* Lines 36-38: buf = fsrc.read(buffer_size); the loop is left on b''.
ReadChunk ==
    /\ CopyFrame
    /\ f_pc = "read"
    /\ LET buf == ReadBytes(f_fs[f_src].data, f_rpos, f_size)
       IN  /\ f_buf' = buf
           /\ f_rpos' = f_rpos + Len(buf)
           /\ f_pc' = IF buf = <<>> THEN "close" ELSE "write"
    /\ f_reads' = f_reads + 1
    /\ UNCHANGED <<f_fs, f_src, f_dst, f_size, f_wpos, f_before>>

\* Line 39: fdst.write(buf).
WriteChunk ==
    /\ CopyFrame
    /\ f_pc = "write"
    /\ f_fs' = [f_fs EXCEPT ![f_dst].data = WriteBytes(@, f_wpos, f_buf)]
    /\ f_wpos' = f_wpos + Len(f_buf)
    /\ f_pc' = "read"
    /\ UNCHANGED <<f_src, f_dst, f_size, f_rpos, f_buf, f_reads, f_before>>

\* Line 34: the with statement closes both files and the function returns.
CloseFiles ==
    /\ CopyFrame
    /\ f_pc = "close"
    /\ f_pc' = "returned"
    /\ UNCHANGED <<f_fs, f_src, f_dst, f_size, f_rpos, f_wpos, f_buf, f_reads,
                   f_before>>

CopyNext ==
    \/ \E path \in Paths, data \in Contents : StoreFile(path, data)
    \/ \E src \in Paths, dst \in Paths, n \in BufferSizes : CallCopy(src, dst, n)
    \/ OpenSrc
    \/ OpenDst
    \/ ReadChunk
    \/ WriteChunk
    \/ CloseFiles

\* No file has been stored and the function has not been called.
CopyInit ==
    /\ f_pc = "idle"
    /\ f_fs = [path \in Paths |-> NoFile]
    /\ f_src = ""
    /\ f_dst = ""
    /\ f_size = 1
    /\ f_rpos = 0
    /\ f_wpos = 0
    /\ f_buf = <<>>
    /\ f_reads = 0
    /\ f_before = [path \in Paths |-> NoFile]

(***************************************************************************)
(*                  src/python/oop/class2.py, RichExample                  *)
(***************************************************************************)

\* 'demo' is the name of line 146, [1, 2] a list like its [1, 2, 3], 'color' and 'blue'
\* the key and value of line 147.
RichNames == {"demo", "other"}
StartValues == {<<>>, <<1, 2>>}
Keys == {"color", "name"}
AttrValues == {"blue", "red"}
Unset == "<unset>"

\* The elements an operand of + or += may hold: an int, a float (val + 0.5)
\* or the string 'x'.
IntElem(n) == [kind |-> "int", val |-> n]
FloatElem(n) == [kind |-> "float", val |-> n]
BadElem == [kind |-> "str", val |-> 0]

ListOperand(items) == [type |-> "list", ref |-> 0, items |-> items]
StrOperand == [type |-> "str", ref |-> 0, items |-> <<>>]
ScalarOperand(e) == [type |-> "scalar", ref |-> 0, items |-> <<e>>]
RichOperand(o) == [type |-> "rich", ref |-> o, items |-> <<>>]

\* The operands that are no RichExample: [4, 5] (line 153), lists with an
\* element int() rejects, last or first, a str, and the float 7.5.
PlainOperands ==
    { ListOperand(<<IntElem(4), IntElem(5)>>),
      ListOperand(<<IntElem(4), BadElem>>),
      ListOperand(<<BadElem, IntElem(4)>>),
      StrOperand,
      ScalarOperand(FloatElem(7)) }

\* int(value), line 141 and 142: "" when it returns, else the exception.
IntErr(e) == IF e.kind = "str" THEN "ValueError" ELSE ""
IntOf(e) == e.val

RECURSIVE ConvertedPrefix(_)
\* The elements of items that line 141 converts before int() raises.
ConvertedPrefix(items) ==
    IF items = <<>> \/ IntErr(Head(items)) # "" THEN <<>>
    ELSE <<IntOf(Head(items))>> \o ConvertedPrefix(Tail(items))

\* Lines 134-142: _coerce_iterable(other).
CoerceIterable(other) ==
    IF other.type = "rich"
    THEN [err |-> "", val |-> r_lists[r_objs[other.ref].values]]
    ELSE IF other.type = "str"
    THEN [err |-> "TypeError", val |-> <<>>]
    ELSE IF Len(ConvertedPrefix(other.items)) < Len(other.items)
    THEN [err |-> "ValueError", val |-> <<>>]
    ELSE [err |-> "", val |-> ConvertedPrefix(other.items)]

NoExtras == [k \in Keys |-> Unset]

NoOperand == [type |-> "none", ref |-> 0, items |-> <<>>]

\* What an operation was given and what came of it: the object it returned
\* (0 if none), the value it returned, the exception it raised ("" if none).
LastOp(op, left, right, key, result, val, err) ==
    [op |-> op, left |-> left, right |-> right, key |-> key, result |-> result,
     val |-> val, err |-> err, objs |-> r_objs, lists |-> r_lists]

\* An exception raised in the body of a with statement leaves the body.
Leaves(err) ==
    IF r_with.phase = "body" /\ err # ""
    THEN [r_with EXCEPT !.phase = "raising", !.exc = err]
    ELSE r_with

\* Lines 11-15: RichExample(name, values) on the heap; list(values) is a
\* new list.
Construct(name, values) ==
    /\ r_lists' = Append(r_lists, values)
    /\ r_objs' = Append(r_objs, [name |-> name, values |-> Len(r_lists) + 1,
                                 extras |-> NoExtras, active |-> FALSE])

\* Line 146: an object is constructed, 'demo' first; the objects a run
\* starts from are there before it operates on them, one of each name.
NewRich(name, values) ==
    /\ RichFrame
    /\ r_with.phase # "raising"
    /\ Len(r_objs) < MaxObjects
    /\ r_n = 0
    /\ Len(r_objs) = 0 => name = "demo"
    /\ \A o \in 1..Len(r_objs) : r_objs[o].name # name
    /\ Construct(name, values)
    /\ r_last' = LastOp("new", NoOperand, NoOperand, "", Len(r_objs) + 1, "", "")
    /\ UNCHANGED <<r_with, r_n>>

\* The operand whose method evaluates left + right: left.__add__ when left
\* is a RichExample, else right.__radd__.
Handler(left, right) == IF left.type = "rich" THEN left.ref ELSE right.ref

\* Line 70: self._values + self._coerce_iterable(other).
AddValues(values, coerced) == values \o coerced
\* Line 73: self._coerce_iterable(other) + self._values.
RaddValues_Swapped(values, coerced) == values \o coerced
RaddValues(values, coerced) == coerced \o values

\* Lines 69-73: left + right, one of the two a RichExample.
BinaryAdd(left, right) ==
    /\ RichFrame
    /\ r_with.phase # "raising"
    /\ Len(r_objs) < MaxObjects
    /\ r_n < MaxOps
    /\ r_n' = r_n + 1
    /\ LET self == Handler(left, right)
           other == IF left.type = "rich" THEN right ELSE left
           c == CoerceIterable(other)
           mine == r_lists[r_objs[self].values]
           sum == IF left.type = "rich" THEN AddValues(mine, c.val)
                                         ELSE RaddValues(mine, c.val)
       IN  /\ c.err = "" => Len(sum) <= MaxValues
           /\ IF c.err # ""
              THEN /\ UNCHANGED <<r_objs, r_lists>>
                   /\ r_last' = LastOp("add", left, right, "", 0, "", c.err)
              ELSE /\ Construct(r_objs[self].name, sum)
                   /\ r_last' = LastOp("add", left, right, "", Len(r_objs) + 1, "", "")
           /\ r_with' = Leaves(c.err)

\* Line 76: the contents of self._values after
\* self._values.extend(self._coerce_iterable(other)); the argument is
\* evaluated in full before extend is called.
IaddValues_Eager(values, other) ==
    values \o (IF other.type \in {"list", "scalar"}
               THEN ConvertedPrefix(other.items)
               ELSE CoerceIterable(other).val)
IaddValues(values, other) ==
    IF CoerceIterable(other).err = "" THEN values \o CoerceIterable(other).val
    ELSE values

\* Lines 75-77: a += other.
InPlaceAdd(o, other) ==
    /\ RichFrame
    /\ r_with.phase # "raising"
    /\ r_n < MaxOps
    /\ r_n' = r_n + 1
    /\ LET c == CoerceIterable(other)
           new == IaddValues(r_lists[r_objs[o].values], other)
       IN  /\ Len(new) <= MaxValues
           /\ r_lists' = [r_lists EXCEPT ![r_objs[o].values] = new]
           /\ r_last' = LastOp("iadd", RichOperand(o), other, "",
                               IF c.err = "" THEN o ELSE 0, "", c.err)
           /\ r_with' = Leaves(c.err)
    /\ UNCHANGED r_objs

\* Lines 93-97: obj.key = value for a key without leading underscore.
SetAttr(o, key, value) ==
    /\ RichFrame
    /\ r_with.phase # "raising"
    /\ r_n < MaxOps
    /\ r_n' = r_n + 1
    /\ r_objs' = [r_objs EXCEPT ![o].extras[key] = value]
    /\ r_last' = LastOp("setattr", RichOperand(o), NoOperand, key, 0, value, "")
    /\ UNCHANGED <<r_lists, r_with>>

\* Lines 99-106: del obj.key for a key without leading underscore.
DelAttr(o, key) ==
    /\ RichFrame
    /\ r_with.phase # "raising"
    /\ r_n < MaxOps
    /\ r_n' = r_n + 1
    /\ LET err == IF r_objs[o].extras[key] = Unset THEN "AttributeError" ELSE ""
       IN  /\ r_objs' = [r_objs EXCEPT ![o].extras[key] = Unset]
           /\ r_last' = LastOp("delattr", RichOperand(o), NoOperand, key, 0, "", err)
           /\ r_with' = Leaves(err)
    /\ UNCHANGED r_lists

\* obj.key: the instance attribute when there is one (name, line 12), else
\* __getattr__ (lines 87-91) looks the key up in _extras.
GetAttr(obj, key) ==
    IF key = "name" THEN [err |-> "", val |-> obj.name]
    ELSE IF obj.extras[key] # Unset THEN [err |-> "", val |-> obj.extras[key]]
    ELSE [err |-> "AttributeError", val |-> ""]

\* obj.key is read.
ReadAttr(o, key) ==
    /\ RichFrame
    /\ r_with.phase # "raising"
    /\ r_n < MaxOps
    /\ r_n' = r_n + 1
    /\ LET g == GetAttr(r_objs[o], key)
       IN  /\ r_last' = LastOp("getattr", RichOperand(o), NoOperand, key, 0, g.val, g.err)
           /\ r_with' = Leaves(g.err)
    /\ UNCHANGED <<r_objs, r_lists>>

\* Lines 79-81, line 155: `with obj:` calls __enter__.
WithEnter(o) ==
    /\ RichFrame
    /\ r_with.phase = "none"
    /\ r_objs' = [r_objs EXCEPT ![o].active = TRUE]
    /\ r_with' = [obj |-> o, phase |-> "body", exc |-> ""]
    /\ r_last' = LastOp("enter", RichOperand(o), NoOperand, "", o, "", "")
    /\ UNCHANGED <<r_lists, r_n>>

\* The body of the with statement raises.
BodyRaises ==
    /\ RichFrame
    /\ r_with.phase = "body"
    /\ r_with' = Leaves("RuntimeError")
    /\ r_last' = LastOp("raise", NoOperand, NoOperand, "", 0, "", "RuntimeError")
    /\ UNCHANGED <<r_objs, r_lists, r_n>>

\* Line 85: the value __exit__ returns; a true value would suppress the
\* exception of the body.
ExitReturn_True == TRUE
ExitReturn == FALSE

\* Lines 83-85: the block is left, normally or by an exception; err of the
\* operation is the exception that goes on after the with statement.
WithExit ==
    /\ RichFrame
    /\ r_with.phase \in {"body", "raising"}
    /\ r_objs' = [r_objs EXCEPT ![r_with.obj].active = FALSE]
    /\ r_with' = [obj |-> 0, phase |-> "none", exc |-> ""]
    /\ r_last' = LastOp("exit", RichOperand(r_with.obj), NoOperand, "", 0, r_with.exc,
                        IF ExitReturn THEN "" ELSE r_with.exc)
    /\ UNCHANGED <<r_lists, r_n>>

\* Every operand of + and +=: the plain ones and the objects there are.
Operands == PlainOperands \cup { RichOperand(o) : o \in 1..Len(r_objs) }

\* The arithmetic dunders and the context manager.
RichNext ==
    \/ \E name \in RichNames, values \in StartValues : NewRich(name, values)
    \/ \E left, right \in Operands :
          ("rich" \in {left.type, right.type}) /\ BinaryAdd(left, right)
    \/ \E o \in 1..Len(r_objs), other \in Operands : InPlaceAdd(o, other)
    \/ \E o \in 1..Len(r_objs) : WithEnter(o)
    \/ BodyRaises
    \/ WithExit

\* The attribute hooks and the context manager.
RichAttrNext ==
    \/ \E name \in RichNames, values \in StartValues : NewRich(name, values)
    \/ \E o \in 1..Len(r_objs), key \in Keys, value \in AttrValues : SetAttr(o, key, value)
    \/ \E o \in 1..Len(r_objs), key \in Keys : DelAttr(o, key)
    \/ \E o \in 1..Len(r_objs), key \in Keys : ReadAttr(o, key)
    \/ \E o \in 1..Len(r_objs) : WithEnter(o)
    \/ BodyRaises
    \/ WithExit

\* Before line 146: no object yet.
RichInit ==
    /\ r_objs = <<>>
    /\ r_lists = <<>>
    /\ r_with = [obj |-> 0, phase |-> "none", exc |-> ""]
    /\ r_n = 0
    /\ r_last = [op |-> "none", left |-> NoOperand, right |-> NoOperand, key |-> "",
                 result |-> 0, val |-> "", err |-> "", objs |-> <<>>, lists |-> <<>>]

(***************************************************************************)
(*   src/python/langchain_langgraph_chatbot.py, get_session_history        *)
(***************************************************************************)

\* 'user_123' is the session id of line 66, the inputs are those of lines
\* 70 and 78.
SessionIds == {"user_123", "user_456", "user_789"}
Inputs == {"Hi! My name is Alex.", "What's my name?"}
NoHistory == 0

\* The messages a history holds: the input of an invocation, and the reply
\* of the chain to it, given the messages it was shown.
Human(input) == [type |-> "human", content |-> input, seen |-> 0]
Reply(shown, input) == [type |-> "ai", content |-> input, seen |-> Len(shown)]

\* Lines 53-54: `store` after get_session_history(session_id), fresh being
\* the InMemoryChatMessageHistory() that line 54 would construct.
StoreAfter_Always(store, session_id, fresh) == [store EXCEPT ![session_id] = fresh]
StoreAfter(store, session_id, fresh) ==
    IF store[session_id] = NoHistory THEN [store EXCEPT ![session_id] = fresh]
    ELSE store

\* Lines 52-55: get_session_history(session_id); line 54 constructs an
\* empty history only when it is executed.
GetSessionHistory(session_id) ==
    /\ m_store' = StoreAfter(m_store, session_id, Len(m_hist) + 1)
    /\ m_requested' = m_requested \cup {session_id}
    /\ \/ /\ m_store'[session_id] = Len(m_hist) + 1
          /\ m_hist' = Append(m_hist, <<>>)
       \/ /\ m_store'[session_id] # Len(m_hist) + 1
          /\ m_hist' = m_hist

\* What a call leaves in m_last.
LastCall(op, session_id) ==
    [op |-> op, session_id |-> session_id, result |-> m_store'[session_id],
     store |-> m_store, hist |-> m_hist]

\* get_session_history is called and its result only looked at.
CallGetSessionHistory(session_id) ==
    /\ HistFrame
    /\ GetSessionHistory(session_id)
    /\ m_last' = LastCall("get", session_id)

\* Lines 69-72, 77-80, 85-88: chatbot.invoke under a session id.  The
\* wrapper asks get_session_history for the history, runs the chain with its
\* messages and appends the input and the reply to it.
ChatbotInvoke(session_id, input) ==
    /\ HistFrame
    /\ LET got == StoreAfter(m_store, session_id, Len(m_hist) + 1)[session_id]
           created == got = Len(m_hist) + 1
           shown == IF created THEN <<>> ELSE m_hist[got]
           after == shown \o <<Human(input), Reply(shown, input)>>
       IN  /\ Len(after) <= 2 * MaxInvokes
           /\ m_store' = StoreAfter(m_store, session_id, Len(m_hist) + 1)
           /\ m_requested' = m_requested \cup {session_id}
           /\ m_hist' = IF created THEN Append(m_hist, after)
                                   ELSE [m_hist EXCEPT ![got] = after]
    /\ m_last' = LastCall("invoke", session_id)

HistNext ==
    \/ \E session_id \in SessionIds : CallGetSessionHistory(session_id)
    \/ \E session_id \in SessionIds, input \in Inputs : ChatbotInvoke(session_id, input)

\* Line 50: store = {}.
HistInit ==
    /\ m_store = [s \in SessionIds |-> NoHistory]
    /\ m_hist = <<>>
    /\ m_requested = {}
    /\ m_last = [op |-> "none", session_id |-> "", result |-> NoHistory,
                 store |-> [s \in SessionIds |-> NoHistory], hist |-> <<>>]

(***************************************************************************)
(* Specifications                                                          *)
(***************************************************************************)
Init ==
    /\ HandlerInit
    /\ LockInit
    /\ ThreadsInit
    /\ AsyncInit
    /\ MroInit
    /\ GadgetInit
    /\ CustomerInit
    /\ AgentInit
    /\ DaemonInit
    /\ CopyInit
    /\ RichInit
    /\ HistInit

SpecHandler == Init /\ [][HandlerNext]_vars
SpecLock == Init /\ [][LockNext]_vars
\* Every thread that can run is run in the end: the interpreter switches
\* threads at intervals, and a thread blocked on the lock is not runnable.
SpecLockFair ==
    /\ Init /\ [][LockRaisingNext]_vars
    /\ WF_vars(LockMainStep)
    /\ \A t \in Threads : WF_vars(LockThreadStep(t))
SpecThreads == Init /\ [][ThreadsNext]_vars
SpecAsync == Init /\ [][AsyncNext]_vars
\* The interpreter keeps executing the scripts.
SpecAsyncFair == Init /\ [][AsyncNext]_vars /\ WF_vars(AsyncNext)
SpecMro == Init /\ [][MroNext]_vars
SpecGadget == Init /\ [][GadgetNext]_vars
SpecCustomer == Init /\ [][CustomerNext]_vars
SpecAgent == Init /\ [][AgentNext]_vars
\* app.invoke is a synchronous call: the node that is due runs, the model
\* always giving some response.
SpecAgentFair == Init /\ [][AgentNext]_vars /\ WF_vars(GraphStep)
SpecDaemon == Init /\ [][DaemonNext]_vars
SpecCopy == Init /\ [][CopyNext]_vars
SpecRich == Init /\ [][RichNext]_vars
SpecRichAttr == Init /\ [][RichAttrNext]_vars
SpecHist == Init /\ [][HistNext]_vars
\* Both threads are scheduled again and again, and time passes.
SpecDaemonFair ==
    /\ Init
    /\ [][DaemonNext]_vars
    /\ WF_vars(MainThreadStep)
    /\ WF_vars(BackgroundThreadStep)
    /\ WF_vars(SecondPasses)

(***************************************************************************)
(* Claims about handler                                                    *)
(***************************************************************************)

\* <<1, ..., n>>
UpTo(n) == [i \in 1..n |-> i]

\* A record that lines 18-24 get through: it decodes and process_message
\* returns on the decoded body.
RecordProcesses(record) ==
    /\ DecodeRecord(record).err = NoExc
    /\ ProcessMessage(DecodeRecord(record).val) = NoExc

\* C1: handler never propagates an exception to its caller; every error,
\* one raised while the event is serialised for logging included, is caught
\* and answered with a statusCode 500 response.
C1_NeverPropagates ==
    /\ h_pc # "raised"
    /\ (h_pc = "returned" /\ exc # NoExc => response.statusCode = 500)

\* C2: every returned value is a dict of exactly statusCode and body;
\* statusCode is 200 iff every record of event['Records'] was decoded and
\* passed to process_message without an exception, and 500 otherwise.
C2_StatusReflectsBatch ==
    h_pc = "returned" =>
        /\ DOMAIN response = {"statusCode", "body"}
        /\ response.statusCode \in {200, 500}
        /\ response.statusCode = 200 <=>
              /\ event.hasRecords
              /\ \A i \in 1..Len(event.Records) : RecordProcesses(event.Records[i])
              /\ calls = UpTo(Len(event.Records))

C2_Witness ==
    /\ h_pc = "returned"
    /\ response.statusCode = 200
    /\ Len(event.Records) >= 2

\* C3 as stated: when processing of the k-th record raises, process_message
\* has been called for exactly the records before k.
C3_CalledOnlyBeforeFailure ==
    (h_pc = "returned" /\ failedAt >= 1) => calls = UpTo(failedAt - 1)

\* C3 as amended: when processing of the k-th record raises, the loop has
\* taken records 1..k once each and no record after k; process_message has
\* been called once for each record before k, and for record k too exactly
\* when the exception came out of process_message itself; the response is
\* the flat 500 built from the exception text alone.
C3_NoRetryNoPartialFailure ==
    (h_pc = "returned" /\ failedAt >= 1) =>
        /\ taken = UpTo(failedAt)
        /\ calls = IF DecodeRecord(event.Records[failedAt]).err = NoExc
                   THEN UpTo(failedAt) ELSE UpTo(failedAt - 1)
        /\ response = [statusCode |-> 500, body |-> <<"Error: ", exc.msg>>]
        /\ exc.msg \in { "'messageId'", "'body'",
                          "Expecting value: line 1 column 1 (char 0)",
                          "list indices must be integers or slices, not str",
                          "argument of type 'int' is not iterable" }

C3_Witness ==
    /\ h_pc = "returned"
    /\ failedAt = 2
    /\ calls = <<1, 2>>

\* C16: handler processes the batch strictly in the order of
\* event['Records']: the loop takes records 1, 2, ... once each,
\* process_message is called at most once per record and in that order,
\* exactly once for every record when the response is 200; and no request
\* is ever made through the module-level sqs client.
C16_InOrderOncePerRecord ==
    /\ sqs_calls = <<>>
    /\ taken = UpTo(Len(taken))
    /\ calls = UpTo(Len(calls))
    /\ Len(calls) <= Len(taken)
    /\ Len(taken) <= Len(calls) + 1
    /\ event # None /\ event.hasRecords => Len(taken) <= Len(event.Records)
    /\ (h_pc = "returned" /\ response.statusCode = 200) =>
          (calls = UpTo(Len(event.Records)) /\ taken = calls)

C16_Witness ==
    /\ h_pc = "returned"
    /\ response.statusCode = 200
    /\ taken = <<1, 2>>
    /\ calls = <<1, 2>>
    /\ sqs_calls = <<>>

(***************************************************************************)
(* Claims about the lock demo                                              *)
(***************************************************************************)

InCriticalSection(t) == t_pc[t] \in {"load", "store", "exit"}

RECURSIVE SumUpTo(_, _)
SumUpTo(f, n) == IF n = 0 THEN 0 ELSE f[n] + SumUpTo(f, n - 1)

\* C4: under every interleaving the counter equals N*M once all threads
\* have been joined; no increment is lost (the counter is the number of
\* increments performed so far), and at most one thread is ever inside the
\* critical section.
C4_NoLostIncrement ==
    /\ Cardinality({ t \in Threads : InCriticalSection(t) }) <= 1
    /\ \A t \in Threads : InCriticalSection(t) => lock = t
    /\ counter = SumUpTo(t_n, NumThreads)
                 + Cardinality({ t \in Threads : t_pc[t] = "exit" })
    /\ m_pc \in {"print", "done"} => counter = NumThreads * NumIncrements
    /\ m_pc = "done" => printed = NumThreads * NumIncrements

C4_Witness ==
    /\ m_pc = "done"
    /\ printed = NumThreads * NumIncrements

(***************************************************************************)
(* Claims about threads.py run as a script                                 *)
(***************************************************************************)

\* The last line the script prints (line 78).
LastLine == <<"Main thread done. Daemon will exit.">>

Printed(line) == \E k \in 1..Len(out) : out[k] = line

\* C5: executor.map(square, range(5, 10)) with 3 workers yields
\* [25, 36, 49, 64, 81], in input order, whatever the order in which the
\* workers complete: when the script is over, `results` is that list.
C5_MapYieldsSquares ==
    s_pc = "exited" => results = [bound |-> TRUE, value |-> <<25, 36, 49, 64, 81>>]

\* C6: run top to bottom, the script executes every demo section and reaches
\* its final print without an uncaught exception; every name a function uses
\* (such as `time` in square) is bound by the time the function is called.
C6_RunsToCompletion ==
    /\ \A w \in Workers : w_pc[w] = "run" => "time" \in globals
    /\ pending = NoExc
    /\ s_pc = "exited" => Printed(LastLine)

(***************************************************************************)
(* Claims about async.py and threadsexample.py                             *)
(***************************************************************************)

PrintedIn(s, line) == \E k \in 1..Len(s) : s[k] = line
Times(s, line) == Cardinality({ k \in 1..Len(s) : s[k] = line })
\* Every occurrence of line b in s has line a somewhere before it.
Precedes(s, a, b) ==
    \A j \in 1..Len(s) : s[j] = b => \E i \in 1..(j - 1) : s[i] = a

\* C7: main4 awaits long_task (sleeping 2) under wait_for with timeout 1: the
\* TimeoutError branch is always taken and prints 'Timeout!' exactly once,
\* the 'Result:' branch is never reached, long_task never returns 'done', and
\* main4 completes at the timeout, before long_task's sleep would have ended.
C7_TimeoutBranchTaken ==
    LET p == "async.py"
    IN  /\ ~PrintedIn(a_out[p], <<"Result:", "done">>)
        /\ Times(a_out[p], <<"Timeout!">>) <= 1
        /\ co[p]["long"].state # "done"
        /\ a_stmt[p] > 5 =>
              /\ Times(a_out[p], <<"Timeout!">>) = 1
              /\ co[p]["long"].state = "cancelled"
              /\ a_clock[p] - a_t0[p] = WaitForTimeout
              /\ a_clock[p] - a_t0[p] < LongTaskSleep

C7_Witness ==
    /\ a_stmt["async.py"] > 5
    /\ PrintedIn(a_out["async.py"], <<"Timeout!">>)

\* C8: in both gather demos main() completes only after every gathered task
\* has printed its finish line; in threadsexample.py 'Running tasks...'
\* precedes every 'Start' and 'All tasks completed.' comes after 'End A',
\* 'End B' and 'End C'.
C8_GatherWaitsForAll ==
    /\ \A p \in Scripts : \A k \in 1..Len(Children) :
          /\ (a_loop[p] /\ MainCoro(p) = "main" /\ co[p]["main"].state = "done")
                => PrintedIn(a_out[p], EndLine(p, Children[k]))
          /\ a_stmt[p] > 2 => PrintedIn(a_out[p], EndLine(p, Children[k]))
    /\ LET s == a_out["threadsexample.py"]
       IN  \A k \in 1..Len(Children) :
              /\ Precedes(s, <<"Running tasks...">>, <<"Start", Children[k]>>)
              /\ Precedes(s, <<"End", Children[k]>>, <<"All tasks completed.">>)

C8_Witness ==
    /\ PrintedIn(a_out["threadsexample.py"], <<"All tasks completed.">>)
    /\ a_stmt["async.py"] > 2

\* The order in which the claim has the gathered tasks finish.
FinishOrder(p) == IF p = "async.py" THEN <<"A", "C", "B">> ELSE <<"B", "A", "C">>

MaxDelay(p) ==
    CHOOSE d \in { Delay(p, Children[k]) : k \in 1..Len(Children) } :
        \A k \in 1..Len(Children) : Delay(p, Children[k]) <= d

\* main() of script p has come back from its gather and is finished.
MainDone(p) == a_loop[p] /\ MainCoro(p) = "main" /\ co[p]["main"].state = "done"

\* C17: the gathered tasks run concurrently.  Every task prints its start
\* line, in argument order, before any task prints its finish line; the
\* tasks finish in increasing order of delay (A, C, B in async.py; B, A, C
\* in threadsexample.py); and main() takes as long as the largest delay,
\* not the sum of the delays.
C17_GatheredTasksOverlap ==
    \A p \in Scripts :
        LET s == a_out[p]
            n == Len(Children)
        IN  /\ \A j, k \in 1..n :
                  Precedes(s, StartLine(p, Children[j]), EndLine(p, Children[k]))
            /\ \A j, k \in 1..n :
                  j < k => Precedes(s, StartLine(p, Children[j]), StartLine(p, Children[k]))
            /\ \A j, k \in 1..n :
                  j < k => Precedes(s, EndLine(p, FinishOrder(p)[j]),
                                       EndLine(p, FinishOrder(p)[k]))
            /\ \A j, k \in 1..n :
                  Delay(p, Children[j]) < Delay(p, Children[k])
                      => Precedes(s, EndLine(p, Children[j]), EndLine(p, Children[k]))
            /\ MainDone(p) =>
                  /\ \A k \in 1..n : Times(s, StartLine(p, Children[k])) = 1
                  /\ \A k \in 1..n : Times(s, EndLine(p, Children[k])) = 1
                  /\ a_clock[p] - a_t0[p] = MaxDelay(p)
                  /\ a_clock[p] - a_t0[p] <
                        Delay(p, "A") + Delay(p, "B") + Delay(p, "C")

\* Both mains are back from gather: async.py after 2 seconds, the other
\* script after 3.
C17_Witness ==
    /\ MainDone("async.py")
    /\ a_clock["async.py"] - a_t0["async.py"] = 4
    /\ PrintedIn(a_out["async.py"], <<"Task", "B", "finished">>)
    /\ a_stmt["threadsexample.py"] > 2
    /\ PrintedIn(a_out["threadsexample.py"], <<"End", "C">>)

Items == 0..(NumItems - 1)

\* main3 of async.py is running.
InMain3 == a_loop["async.py"] /\ MainCoro("async.py") = "main3"

\* C18: in the queue demo the producer puts 0, 1, 2 without ever blocking,
\* the consumer gets exactly those items in FIFO order, each once, and its
\* loop ends, with the queue empty; every 'Produced i' precedes every
\* 'Consumed j'.
C18_QueueDemo ==
    LET s == a_out["async.py"]
        produced(i) == <<"Produced", Str(i)>>
        consumed(i) == <<"Consumed", Str(i)>>
    IN  /\ <>(a_stmt["async.py"] > 4)
        /\ [](\A i, j \in Items : Precedes(s, produced(i), consumed(j)))
        /\ [](\A i, j \in Items :
                 i < j => /\ Precedes(s, produced(i), produced(j))
                          /\ Precedes(s, consumed(i), consumed(j)))
        /\ [](\A i \in Items : Times(s, produced(i)) <= 1 /\ Times(s, consumed(i)) <= 1)
        /\ [](InMain3 =>
                 /\ a_clock["async.py"] = a_t0["async.py"]
                 /\ co["async.py"]["main"].state # "done"
                        => a_ready["async.py"] = <<Step("main")>>)
        /\ []((a_stmt["async.py"] > 4 \/ (InMain3 /\ co["async.py"]["main"].state = "done")) =>
                 /\ a_queue["async.py"] = <<>>
                 /\ \A i \in Items : Times(s, produced(i)) = 1 /\ Times(s, consumed(i)) = 1)

\* main3 is over and the three items went through the queue.
C18_Witness ==
    /\ a_stmt["async.py"] > 4
    /\ a_queue["async.py"] = <<>>
    /\ PrintedIn(a_out["async.py"], <<"Consumed", "2">>)

\* C19: creating the task does not run it: 'Main2 continues...' is printed
\* before 'Quick task running', which is printed before 'Quick task done';
\* and main2 returns only after 'Quick task done'.
C19_CreateTaskDefers ==
    LET s == a_out["async.py"]
    IN  /\ Precedes(s, <<"Main2 continues...">>, <<"Quick task running">>)
        /\ Precedes(s, <<"Quick task running">>, <<"Quick task done">>)
        /\ (a_loop["async.py"] /\ MainCoro("async.py") = "main2"
               /\ co["async.py"]["main"].state = "done")
              => PrintedIn(s, <<"Quick task done">>)
        /\ a_stmt["async.py"] > 3 =>
              /\ Times(s, <<"Main2 continues...">>) = 1
              /\ Times(s, <<"Quick task running">>) = 1
              /\ Times(s, <<"Quick task done">>) = 1

C19_Witness ==
    /\ a_loop["async.py"]
    /\ MainCoro("async.py") = "main2"
    /\ co["async.py"]["main"].state = "done"
    /\ a_out["async.py"][Len(a_out["async.py"])] = <<"Quick task done">>

(***************************************************************************)
(* Claims about class3.py                                                  *)
(***************************************************************************)

RECURSIVE Labels(_)
Labels(s) == IF s = <<>> THEN <<>> ELSE <<Label(Head(s))>> \o Labels(Tail(s))

\* C9: ReportView().handle() returns the labels in method-resolution order,
\* every class's handle contributing exactly once and BaseView last:
\* ['report', 'auth', 'cache', 'base'] for ReportView(AuthMixin, CacheMixin),
\* ['report', 'auth', 'cache', 'logging', 'base'] with LoggingMixin added;
\* 'base' does not appear once per mixin.
C9_HandleFollowsMro ==
    v_pc = "done" =>
        /\ v_ret = <<"report">> \o Labels(v_bases) \o <<"base">>
        /\ v_ret = Labels(Mro("ReportView"))
        /\ Times(v_ret, "base") = 1
        /\ v_ret[Len(v_ret)] = "base"
        /\ v_bases = <<"AuthMixin", "CacheMixin">>
              => v_ret = <<"report", "auth", "cache", "base">>
        /\ v_bases = <<"AuthMixin", "CacheMixin", "LoggingMixin">>
              => v_ret = <<"report", "auth", "cache", "logging", "base">>

C9_Witness ==
    /\ v_pc = "done"
    /\ v_bases = <<"AuthMixin", "CacheMixin", "LoggingMixin">>
    /\ v_ret = <<"report", "auth", "cache", "logging", "base">>

(***************************************************************************)
(* Claims about CachedGadget                                               *)
(***************************************************************************)

\* C10: over any sequence of CachedGadget(name, feature) constructions, two
\* constructions with the same name return the identical object,
\* constructions with different names return different objects, and the
\* class-level cache holds exactly one instance per distinct name ever
\* constructed.
C10_OneInstancePerName ==
    LET constructed == { g_log[k].name : k \in 1..Len(g_log) }
    IN  /\ \A i, j \in 1..Len(g_log) :
              (g_log[i].name = g_log[j].name) <=> (g_log[i].obj = g_log[j].obj)
        /\ g_pc = "idle" =>
              /\ { n \in Names : g_cache[n] # 0 } = constructed
              /\ Len(g_heap) = Cardinality(constructed)
        /\ \A k \in 1..Len(g_log) : g_cache[g_log[k].name] = g_log[k].obj
        /\ \A n, m \in Names : (g_cache[n] # 0 /\ g_cache[n] = g_cache[m]) => n = m

C10_Witness ==
    /\ Len(g_log) >= 3
    /\ g_log[1].name = g_log[3].name
    /\ g_log[1].obj = g_log[3].obj
    /\ g_log[1].name # g_log[2].name
    /\ g_log[1].feature # g_log[3].feature

\* The first construction logged under a name.
FirstConstruction(name) ==
    g_log[CHOOSE k \in 1..Len(g_log) :
              /\ g_log[k].name = name
              /\ \A j \in 1..(k - 1) : g_log[j].name # name]

\* C11: __init__ runs on every construction, but only the first construction
\* for a name initialises the instance: every constructed object carries the
\* name it was constructed under and the feature passed to the first
\* construction with that name, whatever later constructions pass.
C11_FirstFeatureKept ==
    \A k \in 1..Len(g_log) :
        /\ g_heap[g_log[k].obj].initialized
        /\ g_heap[g_log[k].obj].name = g_log[k].name
        /\ g_heap[g_log[k].obj].feature = FirstConstruction(g_log[k].name).feature

\* C11, the frame half: __init__ on an initialised instance changes no
\* attribute of any object.
C11_LaterInitLeavesAttributes ==
    [][(g_pc = "init" /\ g_heap[g_call.obj].initialized) => g_heap' = g_heap]_vars

\* Lines 84-85: 'Raven' with 'optical kit', then 'Raven' with 'thermal kit'.
C11_Witness ==
    /\ Len(g_log) >= 2
    /\ g_log[1].name = "Raven" /\ g_log[1].feature = "optical kit"
    /\ g_log[2].name = "Raven" /\ g_log[2].feature = "thermal kit"
    /\ g_heap[g_log[2].obj].feature = "optical kit"

(***************************************************************************)
(* Claims about CustomerRecord                                             *)
(***************************************************************************)

\* C12: over any sequence of save() calls on a CustomerRecord, created_at is
\* None until the first save and is then the reading of the first save for
\* good; updated_at is the reading of the most recent save; with a clock
\* that never goes back created_at <= updated_at, and the two are equal
\* after exactly one save.
C12_Timestamps ==
    c_pc = "live" =>
        /\ c_saves = <<>> => (c_created = NoTimestamp /\ c_updated = NoTimestamp)
        /\ c_saves # <<>> =>
              /\ c_created = c_saves[1]
              /\ c_updated = c_saves[Len(c_saves)]
              /\ c_created # NoTimestamp
              /\ c_created <= c_updated
        /\ Len(c_saves) = 1 => c_created = c_updated

\* Two saves at different readings of the clock.
C12_Witness ==
    /\ Len(c_saves) >= 2
    /\ c_saves[1] < c_saves[Len(c_saves)]
    /\ c_created = c_saves[1]
    /\ c_updated > c_created

(***************************************************************************)
(* Claims about the tool-calling agent graphs                              *)
(***************************************************************************)

LastStep == ag_trace[Len(ag_trace)]
Contains(s, m) == \E i \in 1..Len(s) : s[i] = m

\* C13: the agent workflows keep the conversation history.  During and after
\* a run of app.invoke the state's messages are the input messages followed,
\* in order, by every model response and tool result of that run (a node's
\* returned messages are appended, not substituted); and the list that
\* langgraph_agent_with_memory carries to its next turn contains every
\* earlier user and assistant message.
C13_HistoryKept ==
    /\ ag_pc \in {"agent", "tools", "END"} => ag_state = ag_input \o ag_produced
    /\ (ag_ex = "langgraph_agent_with_memory" /\ ag_pc = "idle") =>
          \A i \in 1..Len(ag_said) : Contains(ag_local, ag_said[i])

\* C14: the agent node runs first; the tools node runs only right after an
\* agent step whose response carries tool calls; every tools step is
\* followed at once by an agent step; and the run reaches END only right
\* after an agent step whose response carries no tool call, which is exactly
\* when should_continue answers 'end'.
C14_Routing ==
    /\ ag_trace # <<>> => ag_trace[1].node = "agent"
    /\ \A i \in 1..Len(ag_trace) :
          ag_trace[i].node = "tools" =>
              /\ i > 1
              /\ ag_trace[i - 1].node = "agent"
              /\ ag_trace[i - 1].tool_calls # <<>>
    /\ \A i \in 1..(Len(ag_trace) - 1) :
          /\ ag_trace[i].node = "tools" => ag_trace[i + 1].node = "agent"
          /\ ag_trace[i].node = "agent" =>
                (ag_trace[i].tool_calls # <<>> /\ ag_trace[i + 1].node = "tools")
    /\ ag_pc = "tools" =>
          (ag_trace # <<>> /\ LastStep.node = "agent" /\ LastStep.tool_calls # <<>>)
    /\ ag_pc = "END" =>
          (ag_trace # <<>> /\ LastStep.node = "agent" /\ LastStep.tool_calls = <<>>)
    /\ ag_pc = "agent" => (ag_trace = <<>> \/ LastStep.node = "tools")
    /\ (ag_trace # <<>> /\ LastStep.node = "agent") =>
          IF LastStep.tool_calls = <<>>
          THEN ag_pc \in {"END", "idle"}
          ELSE ag_pc \in {"tools", "raised"}

\* A run with one round trip through the tools node that has reached END.
C14_Witness ==
    /\ ag_pc = "END"
    /\ Len(ag_trace) = 3
    /\ ag_trace[1].node = "agent" /\ ag_trace[1].tool_calls # <<>>
    /\ ag_trace[2].node = "tools"
    /\ ag_trace[3].node = "agent" /\ ag_trace[3].tool_calls = <<>>

(***************************************************************************)
(* Claims about the daemon thread demo                                     *)
(***************************************************************************)

\* C15: the daemon demo terminates although background_task loops for ever:
\* the main thread prints 'Main thread done. Daemon will exit.' only after
\* its 3-second sleep, the process then exits without waiting for the
\* daemon thread (which is still inside its loop), and nothing is printed
\* after the exit.
C15_ExitsWithoutDaemon ==
    /\ <>(d_proc = "exited")
    /\ [](Contains(d_out, MainDoneLine) => d_clock >= MainSleep)
    /\ [](d_proc = "exited" =>
            /\ Contains(d_out, MainDoneLine)
            /\ d_daemon \in {"line72", "line73", "sleeping"}
            /\ d_out = d_final)

\* The process has exited while the daemon was about to print again.
C15_Witness ==
    /\ d_proc = "exited"
    /\ d_daemon = "line72"
    /\ Len(d_out) >= 3
    /\ d_out[1] = BackgroundLine

(***************************************************************************)
(* Claims about copy_large_file                                            *)
(***************************************************************************)

\* ceil(a / b)
CeilDiv(a, b) == (a + b - 1) \div b

\* dst holds the bytes src had at the call, read in ceil(len/size) + 1 reads.
Copied ==
    /\ f_fs[f_dst] = File(f_before[f_src].data)
    /\ f_reads = CeilDiv(Len(f_before[f_src].data), f_size) + 1

\* C20: copy_large_file(src, dst, buffer_size) terminates and leaves dst with
\* exactly the bytes of src, in order, for every source length (empty, and
\* not a multiple of buffer_size included) and every buffer_size >= 1,
\* whatever dst held before; it calls read ceil(len/buffer_size) + 1 times.
C20_CopiesExactly ==
    /\ f_pc = "returned" => Copied
    /\ f_pc \in {"read", "write", "close"} =>
          /\ f_reads <= CeilDiv(Len(f_before[f_src].data), f_size) + 1
          /\ f_rpos <= Len(f_before[f_src].data)

\* What does hold: the same, for a dst that is another file than src.
CopiesToAnotherFile ==
    f_src # f_dst =>
        /\ f_pc = "returned" => Copied
        /\ f_pc \in {"read", "write", "close"} =>
              /\ f_reads <= CeilDiv(Len(f_before[f_src].data), f_size) + 1
              /\ f_rpos = Min(f_reads * f_size, Len(f_before[f_src].data))
              /\ f_fs[f_src] = f_before[f_src]

\* A file of three bytes copied over a longer-lived dst with buffer size 2.
CopiesToAnotherFile_Witness ==
    /\ f_pc = "returned"
    /\ f_src # f_dst
    /\ Len(f_before[f_src].data) = 3
    /\ f_before[f_dst].exists /\ f_before[f_dst].data # <<>>
    /\ f_size = 2
    /\ f_reads = 3

\* C21: copy_large_file never modifies the source file: for all paths src
\* and dst, dst naming the file of src included, src holds after the call
\* what it held before the call.
C21_SourceUnchanged ==
    f_pc \in {"returned", "raised"} => f_fs[f_src] = f_before[f_src]

(***************************************************************************)
(*                 RichExample: claims C22, C23, C24, C25                  *)
(***************************************************************************)

\* The object an operation was applied to, as it is now.
Target == r_objs[r_last.left.ref]

\* What the objects that existed before the last operation were then and
\* are now, _active apart.
Passive(objs) == [o \in 1..Len(objs) |-> [objs[o] EXCEPT !.active = FALSE]]
Earlier(seq) == SubSeq(seq, 1, Len(r_last.objs))
EarlierLists == SubSeq(r_lists, 1, Len(r_last.lists))

ValuesBefore(operand) ==
    IF operand.type = "rich" THEN r_last.lists[r_last.objs[operand.ref].values]
    ELSE [i \in 1..Len(operand.items) |-> operand.items[i].val]

\* The last operation was a + that returned.
Added == r_last.op = "add" /\ r_last.err = ""

\* a + other and other + a returned an object that is a new one with a new
\* value list, the operands' values concatenated in operand order, and no
\* object or list there was before has changed.
AddIsPure ==
    Added =>
        /\ r_last.result = Len(r_last.objs) + 1
        /\ Len(r_objs) = r_last.result
        /\ r_objs[r_last.result].values = Len(r_last.lists) + 1
        /\ \A o \in 1..Len(r_last.objs) :
              r_objs[o].values # r_objs[r_last.result].values
        /\ r_lists[r_objs[r_last.result].values]
              = ValuesBefore(r_last.left) \o ValuesBefore(r_last.right)
        /\ Earlier(r_objs) = r_last.objs
        /\ EarlierLists = r_last.lists

\* a += other returned a itself, its own list extended by other's values,
\* nothing else changed.
IaddInPlace ==
    r_last.op = "iadd" /\ r_last.err = "" =>
        /\ r_last.result = r_last.left.ref
        /\ r_objs = r_last.objs
        /\ r_lists = [r_last.lists EXCEPT ![Target.values] =
                         ValuesBefore(r_last.left) \o ValuesBefore(r_last.right)]

\* C23 as stated: besides AddIsPure and IaddInPlace, the result of a + other
\* and of other + a has a's name, whichever operand a is.
C23_ResultNamedAfterA ==
    /\ AddIsPure
    /\ IaddInPlace
    /\ Added => \A operand \in {r_last.left, r_last.right} :
                   operand.type = "rich" =>
                       r_objs[r_last.result].name = r_last.objs[operand.ref].name

\* C23, amended: a + other and other + a modify no operand and return a new
\* object with a new value list, the operands' values concatenated in
\* operand order; it has the name of the left operand when that is a
\* RichExample, else the name of the right one; a += other extends a's own
\* list in place and evaluates to a.
C23_ResultNamedAfterLeft ==
    /\ AddIsPure
    /\ IaddInPlace
    /\ Added => r_objs[r_last.result].name =
                   r_last.objs[Handler(r_last.left, r_last.right)].name

\* Two objects of different names were added, with values on both sides.
C23_Witness ==
    /\ Added
    /\ r_last.left.type = "rich"
    /\ r_last.right.type = "rich"
    /\ r_last.objs[r_last.left.ref].name # r_last.objs[r_last.right.ref].name
    /\ r_lists[r_objs[r_last.result].values] # <<>>

\* C24: a += other that raises leaves a's values, name and extras, and every
\* other object, as they were: no prefix of other has been appended.
C24_FailedIaddChangesNothing ==
    r_last.op = "iadd" /\ r_last.err # "" =>
        /\ r_objs = r_last.objs
        /\ r_lists = r_last.lists

\* a += [4, 'x'] raised on an object that has values.
C24_Witness ==
    /\ r_last.op = "iadd"
    /\ r_last.err = "ValueError"
    /\ r_last.right = ListOperand(<<IntElem(4), BadElem>>)
    /\ r_lists[Target.values] # <<>>

\* C25: reading an attribute right after assigning it returns the assigned
\* value, for every name without leading underscore, 'name' included;
\* reading it right after del raises AttributeError.
C25_ReadsBackAssigned ==
    /\ r_last.op = "setattr" =>
          GetAttr(Target, r_last.key) = [err |-> "", val |-> r_last.val]
    /\ r_last.op = "delattr" =>
          GetAttr(Target, r_last.key).err = "AttributeError"

(***************************************************************************)
(*                      Session histories: claim C26                       *)
(***************************************************************************)

\* The session ids that have an entry in store.
Stored(store) == {s \in SessionIds : store[s] # NoHistory}

IsPrefix(short, long) ==
    Len(short) <= Len(long) /\ SubSeq(long, 1, Len(short)) = short

\* C26: store has an entry for exactly the session ids requested so far; a
\* history is created only by the first request for its id; every later
\* request returns the object the store already held, with the messages it
\* had; no entry ever changes and no two ids share a history.
C26_OneHistoryPerSession ==
    /\ Stored(m_store) = m_requested
    /\ \A s, t \in Stored(m_store) : s # t => m_store[s] # m_store[t]
    /\ \A s \in Stored(m_last.store) : m_store[s] = m_last.store[s]
    /\ m_last.op # "none" =>
          /\ m_last.result = m_store[m_last.session_id]
          /\ m_last.result \in 1..Len(m_hist)
          /\ Len(m_hist) = Len(m_last.hist)
                + (IF m_last.session_id \in Stored(m_last.store) THEN 0 ELSE 1)
          /\ \A h \in 1..Len(m_last.hist) :
                IF h = m_last.result /\ m_last.op = "invoke"
                THEN IsPrefix(m_last.hist[h], m_hist[h])
                ELSE m_hist[h] = m_last.hist[h]

\* A second invocation under one session id found the messages of the
\* first, with another session in the store.
C26_Witness ==
    /\ m_last.op = "invoke"
    /\ m_last.session_id \in Stored(m_last.store)
    /\ Len(m_last.hist[m_last.result]) = 2
    /\ Len(m_hist[m_last.result]) = 4
    /\ Cardinality(Stored(m_store)) >= 2

(***************************************************************************)
(*                     CustomerRecord: claim C27                           *)
(***************************************************************************)

\* C27: deleted is False after construction; once True it stays True under
\* every later save() and delete(); a delete() leaves name, created_at and
\* updated_at as they were, a save() leaves deleted and name as they were.
C27_SoftDelete ==
    [][ /\ (c_pc = "none" /\ c_pc' = "live") => ~c_deleted'
        /\ c_deleted => c_deleted'
        /\ c_deleted' # c_deleted =>
              /\ c_deleted'
              /\ c_name' = c_name
              /\ c_created' = c_created
              /\ c_updated' = c_updated
        /\ c_saves' # c_saves =>
              /\ c_deleted' = c_deleted
              /\ c_name' = c_name ]_vars

\* A deleted record that has been saved at two different times.
C27_Witness ==
    /\ c_deleted
    /\ Len(c_saves) = MaxSaves
    /\ c_created # c_updated

(***************************************************************************)
(*                        Lock demo: claim C28                             *)
(***************************************************************************)

\* The threads have ended, each with all its increments done unless one of
\* them raised, the joins have returned and nobody holds the lock.
LockDemoOver ==
    /\ m_pc = "done"
    /\ lock = 0
    /\ \A t \in Threads :
          \/ t_pc[t] = "finished" /\ t_n[t] = NumIncrements
          \/ t_pc[t] = "raised"

\* A thread holds the lock only inside its with block.
HeldOnlyInside ==
    \A t \in Threads : lock = t => t_pc[t] \in {"load", "store", "exit"}

\* C28: under fair scheduling the lock demo runs to its end: every thread
\* ends, having done all its increments unless one raised, the joins of the
\* main thread return, and the lock is then free; the lock is released
\* after every increment, also after one that raised.
C28_DeadlockFree == []HeldOnlyInside /\ <>[]LockDemoOver

\* The demo is over with one thread ended by an exception and another by
\* completing its increments.
C28_Witness ==
    /\ LockDemoOver
    /\ \E t, u \in Threads : t_pc[t] = "raised" /\ t_pc[u] = "finished"

(***************************************************************************)
(*                    Agent graph: claim C29                               *)
(***************************************************************************)

\* app.invoke is running a graph.
Running == ag_pc \in {"agent", "tools"}

\* Some response of the run so far carried no tool call.
Answered ==
    \E i \in 1..Len(ag_trace) :
        ag_trace[i].node = "agent" /\ ag_trace[i].tool_calls = <<>>

\* C29 as stated, its finite part: an invoke comes to an end only when the
\* model has returned a message without tool calls, the graph itself
\* cutting no run.
C29_EndsOnlyByAnswer ==
    (~Running /\ ag_trace # <<>>) => Answered

\* How a run may stand: at END only after a response without tool calls,
\* never there while the model asks for a tool in every response; cut by the
\* graph only when no response was without tool calls; and over after one
\* agent step when the first response had no tool calls.
AgentRunShape ==
    /\ ag_pc = "END" =>
          (ag_trace # <<>> /\ LastStep.node = "agent" /\ LastStep.tool_calls = <<>>)
    /\ ag_llm = "insists" => ag_pc # "END" /\ ~Answered
    /\ ag_pc = "raised" => ~Answered /\ Len(ag_trace) = ag_steps
    /\ (ag_trace # <<>> /\ ag_trace[1].tool_calls = <<>>) =>
          /\ Len(ag_trace) = 1
          /\ ag_pc \in {"END", "idle"}

\* C29, amended: every invoke of the agent graph comes to an end: at END
\* when the model returns a message without tool calls before the graph's
\* limit of steps is used up, else cut by the graph with END never reached,
\* as for a model that returns tool calls on every step; a model without
\* tool calls in its first response gives one agent step followed by END.
C29_InvokeTerminates == []AgentRunShape /\ (Running ~> ~Running)

\* A run of a model that asks for a tool in every response was cut by the
\* graph.
C29_Witness ==
    /\ ag_pc = "raised"
    /\ ag_llm = "insists"
    /\ Len(ag_trace) > 2
    /\ \A i \in 1..Len(ag_trace) :
          ag_trace[i].node = "agent" => ag_trace[i].tool_calls # <<>>

====
